---- MODULE Spec2Model ----
(***************************************************************************)
(* Sandboxed execution of generated code: the job orchestrator             *)
(* (services/execution_service.py), the session store                      *)
(* (session/session_store.py), the static validator (sandbox/validator.py) *)
(* and the sandbox runner (sandbox/runner.py).  The validator is also      *)
(* checked alone, as a function of the source (ValidatorSpec), and so are  *)
(* the retry helpers of the AI calls, utils/ai_retry.py (RetrySpec).       *)
(*                                                                         *)
(* Scheduling.  All coroutines run on one asyncio event loop, which is     *)
(* cooperative: a coroutine keeps the loop until it awaits something that  *)
(* is not ready.  The store's lock is never held across an await (no store *)
(* method awaits inside "async with self._lock"), so it is free whenever a *)
(* coroutine asks for it, and asyncio.Lock.acquire on a free lock returns  *)
(* without suspending.  The variable current names the coroutine that      *)
(* holds the loop; the places where a coroutine really leaves the loop are *)
(* the end of a handler, the start of a task made by create_task, and the  *)
(* await of run_in_executor.  The runner itself runs on an executor thread *)
(* and needs no turn of the loop.                                          *)
(***************************************************************************)
EXTENDS Integers, Sequences, FiniteSets, TLC

\* ------------------------------------------------------------- bounds ----
MaxSessions == 2
MaxCalls == 2
MaxTime == 1
TtlSeconds == 0
PreviewRowCount == 1
TimeoutSeconds == 1

SessionIds == 1..MaxSessions
CallIds == 1..MaxCalls
JobIds == 1..MaxCalls
ExecIds == 1..MaxCalls

\* Optional[T]: None is the empty sequence, a value v is <<v>>.
None == <<>>
Some(v) == <<v>>

EmptyMap == [x \in {} |-> 0]

Min(a, b) == IF a <= b THEN a ELSE b

Take(s, n) == SubSeq(s, 1, Min(n, Len(s)))

\* ---------------------------------------------------- sandbox/policy.py ----
BLOCKED_MODULES ==
    {"subprocess", "socket", "requests", "urllib", "http",
     "importlib", "ctypes", "sys", "shutil", "tempfile",
     "pickle", "shelve", "multiprocessing", "threading",
     "concurrent", "asyncio", "signal", "resource",
     "pty", "tty", "termios", "fcntl", "grp", "pwd",
     "platform", "sysconfig", "site", "builtins",
     "gc", "weakref", "inspect", "dis", "tokenize",
     "ast", "code", "codeop", "pdb", "faulthandler"}

BLOCKED_ATTRIBUTES ==
    {"__class__", "__bases__", "__subclasses__", "__globals__",
     "__builtins__", "__code__", "__closure__", "__func__",
     "__self__", "__dict__", "__module__", "__qualname__",
     "mro", "__mro__"}

BLOCKED_CALLS == {"exec", "eval", "compile", "__import__", "open"}

\* ------------------------------------------------------- source text ----
\* A source is a sequence of lines, each a top-level statement.  NodesOfLine
\* gives the syntax-tree nodes of a line that the validator looks at, in
\* pre-order, each with its depth below the module node.  The name of an
\* Import node is the list of its aliases, each a dotted name; the name of
\* an ImportFrom node is its dotted module, empty for "from . import x";
\* the name of a Call node is the callee when the callee is a bare name.
Node(type, depth, name, attr) ==
    [type |-> type, depth |-> depth, name |-> name, attr |-> attr]

\* "[fence]" stands for the three backquotes of a markdown code fence.
FenceLines == {"[fence]python", "[fence]py", "[fence]"}

ParsesLine(l) == l \notin (FenceLines \cup {"for x in:"})

\* A line that parses but is nested too deep for the compiler: a sum of
\* thousands of terms.
TooDeep(l) == l = "x+x+...+x"

NodesOfLine(l) ==
    CASE l = "import subprocess"  -> << Node("Import", 1, << <<"subprocess">> >>, "") >>
      [] l = "import os"          -> << Node("Import", 1, << <<"os">> >>, "") >>
      [] l = "import os.path"     -> << Node("Import", 1, << <<"os", "path">> >>, "") >>
      [] l = "import re, socket"  -> << Node("Import", 1, << <<"re">>, <<"socket">> >>, "") >>
      [] l = "from http.client import x"
                                  -> << Node("ImportFrom", 1, <<"http", "client">>, "") >>
      [] l = "from . import x"    -> << Node("ImportFrom", 1, <<>>, "") >>
      [] l = "open(p)"            -> << Node("Call", 2, <<"open">>, ""),
                                        Node("Name", 3, <<"open">>, ""),
                                        Node("Name", 3, <<"p">>, "") >>
      [] l = "eval(s)"            -> << Node("Call", 2, <<"eval">>, ""),
                                        Node("Name", 3, <<"eval">>, ""),
                                        Node("Name", 3, <<"s">>, "") >>
      [] l = "exec(s)"            -> << Node("Call", 2, <<"exec">>, ""),
                                        Node("Name", 3, <<"exec">>, ""),
                                        Node("Name", 3, <<"s">>, "") >>
      [] l = "compile(s, f, m)"   -> << Node("Call", 2, <<"compile">>, ""),
                                        Node("Name", 3, <<"compile">>, ""),
                                        Node("Name", 3, <<"s">>, ""),
                                        Node("Name", 3, <<"f">>, ""),
                                        Node("Name", 3, <<"m">>, "") >>
      [] l = "__import__(m)"      -> << Node("Call", 2, <<"__import__">>, ""),
                                        Node("Name", 3, <<"__import__">>, ""),
                                        Node("Name", 3, <<"m">>, "") >>
      [] l = "f(open(p))"         -> << Node("Call", 2, <<"f">>, ""),
                                        Node("Name", 3, <<"f">>, ""),
                                        Node("Call", 3, <<"open">>, ""),
                                        Node("Name", 4, <<"open">>, ""),
                                        Node("Name", 4, <<"p">>, "") >>
      [] l = "x.__class__"        -> << Node("Attribute", 2, <<>>, "__class__"),
                                        Node("Name", 3, <<"x">>, "") >>
      [] l = "df.mro()"           -> << Node("Call", 2, <<>>, ""),
                                        Node("Attribute", 3, <<>>, "mro"),
                                        Node("Name", 4, <<"df">>, "") >>
      [] l = "df._data"           -> << Node("Attribute", 2, <<>>, "_data"),
                                        Node("Name", 3, <<"df">>, "") >>
      [] l = "os.system(\"ls\")"  -> << Node("Call", 2, <<>>, ""),
                                        Node("Attribute", 3, <<>>, "system"),
                                        Node("Name", 4, <<"os">>, ""),
                                        Node("Constant", 3, <<>>, "") >>
      [] l = "df.to_csv(out)"     -> << Node("Call", 2, <<>>, ""),
                                        Node("Attribute", 3, <<>>, "to_csv"),
                                        Node("Name", 4, <<"df">>, ""),
                                        Node("Name", 3, <<"out">>, "") >>
      [] OTHER                    -> << >>

MaxDepth == 4

RECURSIVE PreOrder(_)
PreOrder(lines) ==
    IF lines = <<>> THEN <<>>
    ELSE NodesOfLine(Head(lines)) \o PreOrder(Tail(lines))

RECURSIVE Level(_, _)
Level(nodes, d) ==
    IF nodes = <<>> THEN <<>>
    ELSE (IF Head(nodes).depth = d THEN <<Head(nodes)>> ELSE <<>>)
         \o Level(Tail(nodes), d)

RECURSIVE LevelsFrom(_, _)
LevelsFrom(nodes, d) ==
    IF d > MaxDepth THEN <<>> ELSE Level(nodes, d) \o LevelsFrom(nodes, d + 1)

\* Mutant: only the statements and the expressions right below them are
\* visited.
Walk_shallow(lines) == Level(PreOrder(lines), 1) \o Level(PreOrder(lines), 2)

\* ast.walk: breadth first, so the nodes come level by level.
Walk(lines) == LevelsFrom(PreOrder(lines), 1)

\* The names of the model's sources that start with an underscore.
UnderscoreNames == (BLOCKED_ATTRIBUTES \ {"mro"}) \cup {"__import__", "_data"}

\* The errors RestrictedPython's transformer collects at one node: a name
\* or an attribute that starts with an underscore, a call of exec or eval.
RestrictedErrors(n) ==
    CASE n.type = "Attribute" /\ n.attr \in UnderscoreNames
            -> << <<"invalid attribute name", n.attr>> >>
      [] n.type = "Name" /\ n.name[1] \in UnderscoreNames
            -> << <<"invalid variable name", n.name[1]>> >>
      [] n.type = "Call" /\ n.name = <<"exec">>
            -> << <<"Exec calls are not allowed", "">> >>
      [] n.type = "Call" /\ n.name = <<"eval">>
            -> << <<"Eval calls are not allowed", "">> >>
      [] OTHER -> << >>

RECURSIVE RestrictedAll(_)
RestrictedAll(nodes) ==
    IF nodes = <<>> THEN <<>>
    ELSE RestrictedErrors(Head(nodes)) \o RestrictedAll(Tail(nodes))

\* compile_restricted(code, mode="exec"): the exception it raises, if any,
\* with the text of the exception.  A source that does not parse and a
\* source with policy errors raise SyntaxError, the latter with all the
\* policy errors of the source; a source nested too deep raises
\* RecursionError.
compile_restricted(code) ==
    IF \E i \in 1..Len(code) : ~ParsesLine(code[i])
    THEN [raised |-> Some("SyntaxError"), text |-> << <<"invalid syntax", "">> >>]
    ELSE IF \E i \in 1..Len(code) : TooDeep(code[i])
    THEN [raised |-> Some("RecursionError"),
          text |-> << <<"maximum recursion depth exceeded", "">> >>]
    ELSE IF RestrictedAll(PreOrder(code)) # <<>>
    THEN [raised |-> Some("SyntaxError"), text |-> RestrictedAll(PreOrder(code))]
    ELSE [raised |-> None, text |-> <<>>]

\* The loop over node.names, lines 57-61.
RECURSIVE AliasErrors(_)
AliasErrors(names) ==
    IF names = <<>> THEN <<>>
    ELSE (IF Head(names)[1] \in BLOCKED_MODULES
          THEN << <<"Blocked import", Head(names)>> >> ELSE <<>>)
         \o AliasErrors(Tail(names))

\* Mutant: a dotted name is looked up whole in the blocked modules.
NodeErrors_whole_name(n) ==
    CASE n.type = "Import"
            -> IF \E i \in 1..Len(n.name) : n.name[i] \in {<<m>> : m \in BLOCKED_MODULES}
               THEN << <<"Blocked import", n.name[1]>> >> ELSE <<>>
      [] n.type = "ImportFrom" /\ n.name \in {<<m>> : m \in BLOCKED_MODULES}
            -> << <<"Blocked import from", n.name>> >>
      [] n.type = "Call" /\ n.name # <<>> /\ n.name[1] \in BLOCKED_CALLS
            -> << <<"Blocked call", n.name>> >>
      [] n.type = "Attribute" /\ n.attr \in BLOCKED_ATTRIBUTES
            -> << <<"Blocked attribute access", n.attr>> >>
      [] OTHER -> << >>

\* Mutant: an attribute that is the callee of a call is not looked at.
NodeErrors_not_callee(n) ==
    CASE n.type = "Import" -> AliasErrors(n.name)
      [] n.type = "ImportFrom" /\ n.name # <<>> /\ n.name[1] \in BLOCKED_MODULES
            -> << <<"Blocked import from", n.name>> >>
      [] n.type = "Call" /\ n.name # <<>> /\ n.name[1] \in BLOCKED_CALLS
            -> << <<"Blocked call", n.name>> >>
      [] n.type = "Attribute" /\ n.depth = 2 /\ n.attr \in BLOCKED_ATTRIBUTES
            -> << <<"Blocked attribute access", n.attr>> >>
      [] OTHER -> << >>

\* Mutant: an import from a module without a name is blocked as well.
NodeErrors_relative(n) ==
    CASE n.type = "Import" -> AliasErrors(n.name)
      [] n.type = "ImportFrom" /\ (n.name = <<>> \/ n.name[1] \in BLOCKED_MODULES)
            -> << <<"Blocked import from", n.name>> >>
      [] n.type = "Call" /\ n.name # <<>> /\ n.name[1] \in BLOCKED_CALLS
            -> << <<"Blocked call", n.name>> >>
      [] n.type = "Attribute" /\ n.attr \in BLOCKED_ATTRIBUTES
            -> << <<"Blocked attribute access", n.attr>> >>
      [] OTHER -> << >>

\* The violation messages of one node, pass 2 of validate_code.
NodeErrors(n) ==
    CASE n.type = "Import" -> AliasErrors(n.name)
      [] n.type = "ImportFrom" /\ n.name # <<>> /\ n.name[1] \in BLOCKED_MODULES
            -> << <<"Blocked import from", n.name>> >>
      [] n.type = "Call" /\ n.name # <<>> /\ n.name[1] \in BLOCKED_CALLS
            -> << <<"Blocked call", n.name>> >>
      [] n.type = "Attribute" /\ n.attr \in BLOCKED_ATTRIBUTES
            -> << <<"Blocked attribute access", n.attr>> >>
      [] OTHER -> << >>

\* One iteration of the loop over ast.walk(tree).
Visit(result, n) ==
    IF NodeErrors(n) # <<>>
    THEN [is_valid |-> FALSE, errors |-> result.errors \o NodeErrors(n)]
    ELSE result

\* Mutant: the walk stops at the first violation.
RECURSIVE VisitAll_first(_, _)
VisitAll_first(result, nodes) ==
    IF nodes = <<>> \/ ~result.is_valid THEN result
    ELSE VisitAll_first(Visit(result, Head(nodes)), Tail(nodes))

RECURSIVE VisitAll(_, _)
VisitAll(result, nodes) ==
    IF nodes = <<>> THEN result ELSE VisitAll(Visit(result, Head(nodes)), Tail(nodes))

\* validate_code: pass 1, lines 35-44, then pass 2.  An exception of
\* compile_restricted that is not a SyntaxError is an Exception and is
\* caught at line 41.
validate_code(code) ==
    LET compiled == compile_restricted(code)
    IN  IF compiled.raised = Some("SyntaxError")
        THEN [is_valid |-> FALSE, errors |-> << <<"Syntax error", compiled.text>> >>]
        ELSE IF compiled.raised # None
        THEN [is_valid |-> FALSE,
              errors |-> << <<"Compilation error", compiled.text>> >>]
        ELSE VisitAll([is_valid |-> TRUE, errors |-> <<>>], Walk(code))

\* str.strip() followed by splitlines(): blank lines at both ends go.
RECURSIVE DropLeadingBlank(_)
DropLeadingBlank(lines) ==
    IF lines # <<>> /\ Head(lines) = "" THEN DropLeadingBlank(Tail(lines)) ELSE lines

RECURSIVE DropTrailingBlank(_)
DropTrailingBlank(lines) ==
    IF lines # <<>> /\ lines[Len(lines)] = ""
    THEN DropTrailingBlank(SubSeq(lines, 1, Len(lines) - 1))
    ELSE lines

StripBlank(lines) == DropTrailingBlank(DropLeadingBlank(lines))

_strip_markdown_fences(code) ==
    LET l0 == StripBlank(code)
        l1 == IF l0 # <<>> /\ Head(l0) \in FenceLines THEN Tail(l0) ELSE l0
        l2 == IF l1 # <<>> /\ l1[Len(l1)] = "[fence]"
              THEN SubSeq(l1, 1, Len(l1) - 1) ELSE l1
    IN  l2

\* The sources submitted in the model.
Sources ==
    { <<"[fence]python", "df.to_csv(out)", "[fence]">>,
      <<"import subprocess", "open(p)">>,
      <<"for x in:">> }

\* validate_code over the sources of the model, fences stripped.
Validation ==
    [code \in {_strip_markdown_fences(src) : src \in Sources} |-> validate_code(code)]

\* ------------------------------------------- session/session_store.py ----
ExecutionJob(job_id, status, created_at, started_at) ==
    [job_id |-> job_id, status |-> status, created_at |-> created_at,
     started_at |-> started_at, finished_at |-> None,
     preview_rows |-> <<>>, preview_columns |-> <<>>,
     error_message |-> None, execution_time_ms |-> None,
     output_csv_path |-> None]

SessionData(session_id, created_at) ==
    [session_id |-> session_id, created_at |-> created_at,
     parquet_path |-> <<"inbound", session_id>>, execution_jobs |-> EmptyMap]

\* Mutant: an id that may have been handed out before.
uuid4_repeated(used, all) == {x \in all : \A y \in all : x <= y}

\* uuid.uuid4(): a value that was never handed out before.  The ids are
\* opaque, so the least unused one stands for any of them.
uuid4(used, all) ==
    {x \in all \ used : \A y \in all \ used : x <= y}

VARIABLES
    now,        \* the clock, in seconds
    store,      \* SessionStore._store: session id -> SessionData
    heap,       \* the ExecutionJob objects something still refers to
    calls,      \* the submit_execution_job calls
    tasks,      \* the _run_job tasks, by job id
    current,    \* the coroutine that holds the event loop, or None
    issued,     \* the job ids uuid4 has handed out
    sessions,   \* the session ids uuid4 has handed out
    execs,      \* the execution directories made so far: <<session, id>>
    files,      \* exec directory -> content of its output.csv, if any
    source,     \* validate_code alone: the source it is called with
    outcome,    \* validate_code alone: what the call returned, or None
    retry,      \* the running retry helper of utils/ai_retry.py: its locals
    received,   \* the text deltas the consumer of the streaming helper got
    streams,    \* the streams make_stream() has opened, one for each attempt
    sse,        \* the running sse_event_generator of utils/streaming.py
    events      \* the events its consumer has got

\* The variables of the execution service, of the validator checked alone,
\* of the retry helpers and of the event generator.
service_vars == <<now, store, heap, calls, tasks, current, issued, sessions, execs, files>>

validator_vars == <<source, outcome>>

retry_vars == <<retry, received, streams>>

sse_vars == <<sse, events>>

vars == <<service_vars, validator_vars, retry_vars, sse_vars>>

\* No call of validate_code alone, no call of a retry helper, no event
\* generator.
ValidatorIdle == source = <<>> /\ outcome = <<>>

RetryIdle == retry = <<>> /\ received = <<>> /\ streams = <<>>

SseIdle == sse = <<>> /\ events = <<>>

\* Reference to a job object: the one submit made ("q") or the one the
\* background task made ("r").
Ref(j, k) == <<j, k>>

\* SessionStore methods, as changes of _store (each runs under the lock).
\* Mutant: a session that is not in the store is made up on the fly.
get_session_default(st, session_id) ==
    IF session_id \in DOMAIN st THEN Some(st[session_id])
    ELSE Some([session_id |-> session_id, created_at |-> 0,
               parquet_path |-> <<"inbound", session_id>>,
               execution_jobs |-> [x \in {} |-> 0]])

get_session(st, session_id) ==
    IF session_id \in DOMAIN st THEN Some(st[session_id]) ELSE None

create_session(st, data) ==
    [s \in DOMAIN st \cup {data.session_id} |->
        IF s = data.session_id THEN data ELSE st[s]]

\* Mutant: storing a job drops the other jobs of the session.
SetJob_only(session, job_id, ref) ==
    [session EXCEPT !.execution_jobs = (job_id :> ref)]

SetJob(session, job_id, ref) ==
    [session EXCEPT !.execution_jobs =
        [j \in DOMAIN session.execution_jobs \cup {job_id} |->
            IF j = job_id THEN ref ELSE session.execution_jobs[j]]]

\* Mutant: the record is not stored.
add_execution_job_dropped(st, session_id, job_id, ref) == st

add_execution_job(st, session_id, job_id, ref) ==
    IF session_id \in DOMAIN st
    THEN [st EXCEPT ![session_id] = SetJob(@, job_id, ref)]
    ELSE st

\* Mutant: the update is lost.
update_execution_job_lost(st, session_id, job_id, ref) == st

\* Mutant: an update for a session that is not in the store makes one.
update_execution_job_upsert(st, session_id, job_id, ref) ==
    IF session_id \in DOMAIN st
    THEN [st EXCEPT ![session_id] = SetJob(@, job_id, ref)]
    ELSE create_session(st, SetJob(SessionData(session_id, 0), job_id, ref))

update_execution_job(st, session_id, job_id, ref) ==
    IF session_id \in DOMAIN st /\ job_id \in DOMAIN st[session_id].execution_jobs
    THEN [st EXCEPT ![session_id] = SetJob(@, job_id, ref)]
    ELSE st

\* Mutant: a job is handed out only once it is finished.
get_execution_job_finished(st, hp, session_id, job_id) ==
    IF /\ session_id \in DOMAIN st
       /\ job_id \in DOMAIN st[session_id].execution_jobs
       /\ hp[st[session_id].execution_jobs[job_id]].status \in {"success", "error"}
    THEN Some(hp[st[session_id].execution_jobs[job_id]])
    ELSE None

get_execution_job(st, hp, session_id, job_id) ==
    IF session_id \in DOMAIN st /\ job_id \in DOMAIN st[session_id].execution_jobs
    THEN Some(hp[st[session_id].execution_jobs[job_id]])
    ELSE None

\* Mutant: a session whose age equals the TTL is expired too.
Expired_at_least(st, clock, ttl_seconds) ==
    {s \in DOMAIN st : clock - st[s].created_at >= ttl_seconds}

Expired(st, clock, ttl_seconds) ==
    {s \in DOMAIN st : clock - st[s].created_at > ttl_seconds}

\* Mutant: the sweep stops after the first expired session.
cleanup_expired_sessions_first(st, clock, ttl_seconds) ==
    [s \in DOMAIN st \ {e \in Expired(st, clock, ttl_seconds) :
                            \A f \in Expired(st, clock, ttl_seconds) : e <= f} |-> st[s]]

\* The return value of cleanup_expired_sessions: len(expired_ids).
removed(st, clock, ttl_seconds) == Cardinality(Expired(st, clock, ttl_seconds))

cleanup_expired_sessions(st, clock, ttl_seconds) ==
    [s \in DOMAIN st \ Expired(st, clock, ttl_seconds) |-> st[s]]

\* ---------------------------------------------------- sandbox/runner.py ----
\* What the sandboxed process can do: how it ends, what it prints to
\* stderr, and the table it writes to OUTPUT_FILE_PATH, if any.  "raise"
\* is subprocess.run (or the directory set-up) raising, e.g. OSError.
Table1 == [columns |-> <<"a">>, rows |-> <<1, 2>>]
Table2 == [columns |-> <<"a", "b">>, rows |-> <<>>]
Garbage == [columns |-> <<"unparsable">>, rows |-> <<>>]

Proc(kind, returncode, stderr, wrote) ==
    [kind |-> kind, returncode |-> returncode, stderr |-> stderr, wrote |-> wrote]

ProcOutcomes ==
    { Proc("exit", 0, "", Some(Table1)),
      Proc("exit", 0, "", Some(Table2)),
      Proc("exit", 0, "", Some(Garbage)),
      Proc("exit", 0, "warning", None),
      Proc("exit", 1, "EXECUTION ERROR", None),
      Proc("exit", 1, "", Some(Table1)),
      Proc("timeout", 0, "", Some(Table1)),
      Proc("raise", 0, "", None) }

SandboxResult(success, stderr, exit_code, timed_out, output_csv_path, ms) ==
    [raised |-> FALSE, success |-> success, stderr |-> stderr,
     exit_code |-> exit_code, timed_out |-> timed_out,
     output_csv_path |-> output_csv_path, execution_time_ms |-> ms]

RunnerException ==
    [raised |-> TRUE, success |-> FALSE, stderr |-> "OSError",
     exit_code |-> 0, timed_out |-> FALSE,
     output_csv_path |-> None, execution_time_ms |-> 0]

\* Mutant: after a timeout the file that is already there is trusted.
execute_code_in_sandbox_partial(exec_id, proc, fs, elapsed_ms) ==
    IF proc.kind = "raise" THEN RunnerException
    ELSE IF fs[exec_id] # None
    THEN SandboxResult(TRUE, proc.stderr, 0, proc.kind = "timeout", Some(exec_id),
                       elapsed_ms)
    ELSE SandboxResult(FALSE, proc.stderr, proc.returncode, proc.kind = "timeout",
                       None, elapsed_ms)

\* Mutant: a file that is there is trusted whatever the exit code.
execute_code_in_sandbox_lenient(exec_id, proc, fs, elapsed_ms) ==
    IF proc.kind = "raise" THEN RunnerException
    ELSE IF proc.kind = "timeout"
    THEN SandboxResult(FALSE, "Execution timed out", -1, TRUE, None, elapsed_ms)
    ELSE IF fs[exec_id] = None
    THEN SandboxResult(FALSE, "No output file was generated.", proc.returncode,
                       FALSE, None, elapsed_ms)
    ELSE SandboxResult(TRUE, proc.stderr, proc.returncode, FALSE, Some(exec_id),
                       elapsed_ms)

\* The outcome of execute_code_in_sandbox from the point where
\* subprocess.run ends; fs is the file system at that point.
execute_code_in_sandbox(exec_id, proc, fs, elapsed_ms) ==
    IF proc.kind = "raise" THEN RunnerException
    ELSE IF proc.kind = "timeout"
    THEN SandboxResult(FALSE, "Execution timed out", -1, TRUE, None, elapsed_ms)
    ELSE IF proc.returncode # 0
    THEN SandboxResult(FALSE, proc.stderr, proc.returncode, FALSE, None, elapsed_ms)
    ELSE IF fs[exec_id] = None
    THEN SandboxResult(FALSE, "No output file was generated.", 0, FALSE, None,
                       elapsed_ms)
    ELSE SandboxResult(TRUE, proc.stderr, 0, FALSE, Some(exec_id), elapsed_ms)

\* Mutant: the nrows argument is ignored.
read_csv_all(fs, path, n) ==
    IF fs[path] = None \/ fs[path] = Some(Garbage) THEN None
    ELSE Some([columns |-> fs[path][1].columns, rows |-> fs[path][1].rows])

\* pd.read_csv(path, nrows=n): None when it raises.
read_csv(fs, path, n) ==
    IF fs[path] = None \/ fs[path] = Some(Garbage) THEN None
    ELSE Some([columns |-> fs[path][1].columns,
               rows |-> Take(fs[path][1].rows, n)])

\* ---------------------------------------- services/execution_service.py ----
NewCall == [pc |-> "new", session_id |-> 0, code |-> <<>>, job_id |-> None,
            error |-> None]

NewTask(session_id, code) ==
    [pc |-> "scheduled", session_id |-> session_id, code |-> code,
     session |-> None, started |-> 0, exec_id |-> None, proc |-> None,
     result |-> None, invocations |-> 0]

\* A task that has ended: its local variables are gone.
EndedTask(task) ==
    [NewTask(task.session_id, <<>>) EXCEPT !.pc = "done",
                                           !.invocations = task.invocations]

HTTPException(error_code, errors) == Some([error_code |-> error_code, errors |-> errors])

\* The job objects that the store, a submit call or a task still refers to;
\* the others are freed.
LiveRefs(st, cl, tk) ==
    UNION {{st[s].execution_jobs[j] : j \in DOMAIN st[s].execution_jobs} : s \in DOMAIN st}
    \cup {Ref(cl[c].job_id[1], "q") : c \in {d \in DOMAIN cl : cl[d].pc = "schedule"}}
    \cup {Ref(j, "r") : j \in {k \in DOMAIN tk :
            tk[k].pc \in {"call_runner", "in_executor", "subprocess",
                          "executor_done", "final_update"}}}

Collect(hp, st, cl, tk) ==
    [r \in DOMAIN hp \cap LiveRefs(st, cl, tk) |-> hp[r]]

ServiceInit ==
    /\ now = 0
    /\ store = EmptyMap
    /\ heap = EmptyMap
    /\ calls = [c \in CallIds |-> NewCall]
    /\ tasks = EmptyMap
    /\ current = None
    /\ issued = {}
    /\ sessions = {}
    /\ execs = {}
    /\ files = EmptyMap

Init == ServiceInit /\ ValidatorIdle /\ RetryIdle /\ SseIdle

\* Time passes.
Tick ==
    /\ now < MaxTime
    /\ now' = now + 1
    /\ UNCHANGED <<store, heap, calls, tasks, current, issued, sessions, execs, files,
                   validator_vars, retry_vars, sse_vars>>

\* upload_file: a new session under a fresh id.
CreateSession(s) ==
    /\ current = None
    /\ s \in uuid4(sessions, SessionIds)
    /\ sessions' = sessions \cup {s}
    /\ store' = create_session(store, SessionData(s, now))
    /\ UNCHANGED <<now, heap, calls, tasks, current, issued, execs, files,
                   validator_vars, retry_vars, sse_vars>>

\* submit_execution_job, lines 49-54: the session lookup.
SubmitLookup(c, s, code) ==
    /\ current = None
    /\ calls[c].pc = "new"
    /\ IF get_session(store, s) = None
       THEN /\ calls' = [calls EXCEPT ![c] =
                  [@ EXCEPT !.pc = "raised", !.session_id = s,
                            !.error = HTTPException("SESSION_NOT_FOUND", <<>>)]]
            /\ current' = None
       ELSE /\ calls' = [calls EXCEPT ![c] =
                  [@ EXCEPT !.pc = "validate", !.session_id = s, !.code = code]]
            /\ current' = Some(<<"call", c>>)
    /\ UNCHANGED <<now, store, heap, tasks, issued, sessions, execs, files,
                   validator_vars, retry_vars, sse_vars>>

\* Mutant: the validation outcome is not looked at.
SubmitValidate_unchecked(c) ==
    /\ current = Some(<<"call", c>>)
    /\ calls[c].pc = "validate"
    /\ calls' = [calls EXCEPT ![c] =
          [@ EXCEPT !.pc = "add", !.code = _strip_markdown_fences(calls[c].code)]]
    /\ UNCHANGED <<now, store, heap, tasks, current, issued, sessions, execs, files,
                   validator_vars, retry_vars, sse_vars>>

\* Mutant: the stripped code is validated, the code as submitted is kept.
SubmitValidate_raw(c) ==
    /\ current = Some(<<"call", c>>)
    /\ calls[c].pc = "validate"
    /\ LET code == _strip_markdown_fences(calls[c].code)
           validation == Validation[code]
       IN  IF ~validation.is_valid
           THEN /\ calls' = [calls EXCEPT ![c] =
                      [@ EXCEPT !.pc = "raised", !.code = <<>>,
                                !.error = HTTPException("CODE_VALIDATION_FAILED",
                                                        validation.errors)]]
                /\ current' = None
           ELSE /\ calls' = [calls EXCEPT ![c] = [@ EXCEPT !.pc = "add"]]
                /\ current' = current
    /\ UNCHANGED <<now, store, heap, tasks, issued, sessions, execs, files,
                   validator_vars, retry_vars, sse_vars>>

\* submit_execution_job, lines 57-69: fence stripping and validation.
SubmitValidate(c) ==
    /\ current = Some(<<"call", c>>)
    /\ calls[c].pc = "validate"
    /\ LET code == _strip_markdown_fences(calls[c].code)
           validation == Validation[code]
       IN  IF ~validation.is_valid
           THEN /\ calls' = [calls EXCEPT ![c] =
                      [@ EXCEPT !.pc = "raised", !.code = <<>>,
                                !.error = HTTPException("CODE_VALIDATION_FAILED",
                                                        validation.errors)]]
                /\ current' = None
           ELSE /\ calls' = [calls EXCEPT ![c] =
                      [@ EXCEPT !.pc = "add", !.code = code]]
                /\ current' = current
    /\ UNCHANGED <<now, store, heap, tasks, issued, sessions, execs, files,
                   validator_vars, retry_vars, sse_vars>>

\* submit_execution_job, lines 71-73: the queued record.
SubmitAdd(c) ==
    /\ current = Some(<<"call", c>>)
    /\ calls[c].pc = "add"
    /\ \E job_id \in uuid4(issued, JobIds) :
        /\ issued' = issued \cup {job_id}
        /\ heap' = (Ref(job_id, "q") :> ExecutionJob(job_id, "queued", now, None))
                   @@ heap
        /\ store' = add_execution_job(store, calls[c].session_id, job_id,
                                      Ref(job_id, "q"))
        /\ calls' = [calls EXCEPT ![c] =
              [@ EXCEPT !.pc = "schedule", !.job_id = Some(job_id)]]
    /\ UNCHANGED <<now, tasks, current, sessions, execs, files,
                   validator_vars, retry_vars, sse_vars>>

\* submit_execution_job, lines 76-80: asyncio.create_task and the return.
\* create_task either makes the task or raises (the loop is closing, no
\* memory); the exception then leaves submit_execution_job.
SubmitSchedule(c) ==
    /\ current = Some(<<"call", c>>)
    /\ calls[c].pc = "schedule"
    /\ \E created \in BOOLEAN :
        IF created
        THEN /\ tasks' = (calls[c].job_id[1] :>
                            NewTask(calls[c].session_id, calls[c].code)) @@ tasks
             /\ calls' = [calls EXCEPT ![c] =
                   [@ EXCEPT !.pc = "returned", !.code = <<>>]]
        ELSE /\ tasks' = tasks
             /\ calls' = [calls EXCEPT ![c] =
                   [@ EXCEPT !.pc = "raised", !.code = <<>>,
                             !.error = HTTPException("RuntimeError", <<>>)]]
    /\ heap' = Collect(heap, store, calls', tasks')
    /\ current' = None
    /\ UNCHANGED <<now, store, issued, sessions, execs, files,
                   validator_vars, retry_vars, sse_vars>>

\* _run_job, lines 91-93: the task starts and looks the session up.
TaskStart(j) ==
    /\ current = None
    /\ j \in DOMAIN tasks
    /\ tasks[j].pc = "scheduled"
    /\ LET session == get_session(store, tasks[j].session_id)
       IN  IF session = None
           THEN /\ tasks' = [tasks EXCEPT ![j] = EndedTask(@)]
                /\ current' = None
           ELSE /\ tasks' = [tasks EXCEPT ![j] =
                      [@ EXCEPT !.pc = "running",
                                !.session = Some(session[1].parquet_path)]]
                /\ current' = Some(<<"task", j>>)
    /\ UNCHANGED <<now, store, heap, calls, issued, sessions, execs, files,
                   validator_vars, retry_vars, sse_vars>>

\* _run_job, lines 95-100: a new record in status running replaces the
\* queued one.
TaskRunning(j) ==
    /\ current = Some(<<"task", j>>)
    /\ tasks[j].pc = "running"
    /\ store' = update_execution_job(store, tasks[j].session_id, j, Ref(j, "r"))
    /\ tasks' = [tasks EXCEPT ![j] = [@ EXCEPT !.pc = "call_runner"]]
    /\ heap' = Collect((Ref(j, "r") :> ExecutionJob(j, "running", now, Some(now)))
                       @@ heap, store', calls, tasks')
    /\ UNCHANGED <<now, calls, current, issued, sessions, execs, files,
                   validator_vars, retry_vars, sse_vars>>

\* Mutant: the runner is called on the event loop, which the task keeps.
TaskCallRunner_blocking(j) ==
    /\ current = Some(<<"task", j>>)
    /\ tasks[j].pc = "call_runner"
    /\ tasks' = [tasks EXCEPT ![j] = [@ EXCEPT !.pc = "in_executor"]]
    /\ UNCHANGED <<now, store, heap, calls, current, issued, sessions, execs, files,
                   validator_vars, retry_vars, sse_vars>>

\* _run_job, lines 106-118: the runner goes to the executor and the task
\* leaves the loop until it is done.
TaskCallRunner(j) ==
    /\ current = Some(<<"task", j>>)
    /\ tasks[j].pc = "call_runner"
    /\ tasks' = [tasks EXCEPT ![j] = [@ EXCEPT !.pc = "in_executor"]]
    /\ current' = None
    /\ UNCHANGED <<now, store, heap, calls, issued, sessions, execs, files,
                   validator_vars, retry_vars, sse_vars>>

\* uuid.uuid4().hex[:8], line 90: 32 random bits.  Nothing keeps a draw from
\* repeating an earlier one; the ids are opaque, so a draw is either a new
\* id (the least one stands for any) or one of those drawn before.
RunnerDraw(used, all) == uuid4(used, all) \cup used

\* The ids of the execution directories made so far under a session's
\* directory.
ExecIdsOf(session_id) == {d[2] : d \in {e \in execs : e[1] = session_id}}

\* execute_code_in_sandbox, lines 90-121, on the executor thread: the
\* execution directory <session directory>/exec_<id>, made with
\* exist_ok=True so that a directory that is there is used as it is, and the
\* start of the subprocess.
RunnerStart(j) ==
    /\ j \in DOMAIN tasks
    /\ tasks[j].pc = "in_executor"
    /\ \E exec_id \in RunnerDraw(ExecIdsOf(tasks[j].session_id), ExecIds) :
        LET exec_dir == <<tasks[j].session_id, exec_id>>
        IN  /\ execs' = execs \cup {exec_dir}
            /\ files' = IF exec_dir \in DOMAIN files THEN files
                        ELSE (exec_dir :> None) @@ files
            /\ tasks' = [tasks EXCEPT ![j] =
                  [@ EXCEPT !.pc = "subprocess", !.exec_id = Some(exec_dir),
                            !.started = now, !.invocations = @ + 1]]
    /\ UNCHANGED <<now, store, heap, calls, current, issued, sessions,
                   validator_vars, retry_vars, sse_vars>>

\* execute_code_in_sandbox, lines 122-187, on the executor thread: the
\* subprocess ends, or is killed when the timeout is over, and the result
\* is built.
RunnerReturn(j, proc) ==
    /\ j \in DOMAIN tasks
    /\ tasks[j].pc = "subprocess"
    /\ proc.kind = "timeout" => now - tasks[j].started >= TimeoutSeconds
    /\ proc.kind = "exit" => now - tasks[j].started <= TimeoutSeconds
    /\ LET exec_id == tasks[j].exec_id[1]
           fs == IF proc.wrote = None THEN files
                 ELSE [files EXCEPT ![exec_id] = proc.wrote]
       IN  /\ files' = fs
           /\ tasks' = [tasks EXCEPT ![j] =
                 [@ EXCEPT !.pc = "executor_done", !.proc = Some(proc),
                           !.result = Some(execute_code_in_sandbox(
                               exec_id, proc, fs,
                               (now - tasks[j].started) * 1000))]]
    /\ UNCHANGED <<now, store, heap, calls, current, issued, sessions, execs,
                   validator_vars, retry_vars, sse_vars>>

\* Mutant: the except branch leaves the finished timestamp unset.
FinishedRaised_unfinished(job, clock) ==
    [job EXCEPT !.status = "error",
                !.error_message = Some("Internal error: OSError")]

\* The job object after lines 121-123: the runner call raised.
FinishedRaised(job, clock) ==
    [job EXCEPT !.status = "error",
                !.error_message = Some("Internal error: OSError"),
                !.finished_at = Some(clock)]

\* Mutant: a preview read that fails makes the job error.
FinishedReturned_strict(job, result, fs, clock) ==
    IF result.success /\ result.output_csv_path # None
       /\ read_csv(fs, result.output_csv_path[1], PreviewRowCount) # None
    THEN [job EXCEPT !.status = "success", !.finished_at = Some(clock),
                     !.output_csv_path = result.output_csv_path,
                     !.preview_columns =
                        read_csv(fs, result.output_csv_path[1], PreviewRowCount)[1].columns,
                     !.preview_rows =
                        read_csv(fs, result.output_csv_path[1], PreviewRowCount)[1].rows]
    ELSE [job EXCEPT !.status = "error", !.finished_at = Some(clock),
                     !.error_message = Some("Could not read output CSV")]

\* The job object after lines 127-146: the runner call returned result.
FinishedReturned(job, result, fs, clock) ==
    LET timed == [job EXCEPT !.finished_at = Some(clock),
                             !.execution_time_ms = Some(result.execution_time_ms)]
    IN  IF result.success /\ result.output_csv_path # None
        THEN LET df_out == read_csv(fs, result.output_csv_path[1], PreviewRowCount)
             IN  [timed EXCEPT !.status = "success",
                               !.output_csv_path = result.output_csv_path,
                               !.preview_columns =
                                   IF df_out = None THEN <<>> ELSE df_out[1].columns,
                               !.preview_rows =
                                   IF df_out = None THEN <<>> ELSE df_out[1].rows]
        ELSE [timed EXCEPT !.status = "error",
                           !.error_message =
                               IF result.timed_out
                               THEN Some("Timeout: execution exceeded limit")
                               ELSE IF result.stderr # ""
                               THEN Some(result.stderr)
                               ELSE Some("Execution failed with no error output.")]

\* Mutant: the exception of the runner call is not caught, the task dies
\* with its job object as it was.
Finished_uncaught(job, result, fs, clock) ==
    IF result.raised
    THEN job
    ELSE FinishedReturned(job, result, fs, clock)

\* Mutant: the exit code alone decides success.
Finished_exit_code(job, result, fs, clock) ==
    IF result.raised
    THEN FinishedRaised(job, clock)
    ELSE IF result.exit_code = 0
    THEN [job EXCEPT !.status = "success", !.finished_at = Some(clock),
                     !.output_csv_path = result.output_csv_path]
    ELSE FinishedReturned(job, result, fs, clock)

\* Mutant: the captured stderr is the error message, whatever it is.
Finished_raw_stderr(job, result, fs, clock) ==
    IF result.raised
    THEN FinishedRaised(job, clock)
    ELSE IF result.success
    THEN FinishedReturned(job, result, fs, clock)
    ELSE [job EXCEPT !.status = "error", !.finished_at = Some(clock),
                     !.error_message = Some(result.stderr)]

\* The try/except of lines 109-125 and what follows it: the fields of the
\* task's job object are set in place.
Finished(job, result, fs, clock) ==
    IF result.raised
    THEN FinishedRaised(job, clock)
    ELSE FinishedReturned(job, result, fs, clock)

\* Mutant: the task gives the loop away after it has filled its job object.
TaskResume_yields(j) ==
    /\ current = None
    /\ j \in DOMAIN tasks
    /\ tasks[j].pc = "executor_done"
    /\ heap' = [heap EXCEPT ![Ref(j, "r")] = Finished(@, tasks[j].result[1], files, now)]
    /\ tasks' = [tasks EXCEPT ![j] = [@ EXCEPT !.pc = "final_update"]]
    /\ UNCHANGED <<now, store, calls, current, issued, sessions, execs, files,
                   validator_vars, retry_vars, sse_vars>>

\* _run_job, lines 119-123 and 127-146: the task is back on the loop with
\* the runner's result and fills its job object.
TaskResume(j) ==
    /\ current = None
    /\ j \in DOMAIN tasks
    /\ tasks[j].pc = "executor_done"
    /\ heap' = [heap EXCEPT ![Ref(j, "r")] = Finished(@, tasks[j].result[1], files, now)]
    /\ tasks' = [tasks EXCEPT ![j] = [@ EXCEPT !.pc = "final_update"]]
    /\ current' = Some(<<"task", j>>)
    /\ UNCHANGED <<now, store, calls, issued, sessions, execs, files,
                   validator_vars, retry_vars, sse_vars>>

\* _run_job, line 124 or 148: the last update of the store; the task ends.
TaskFinalUpdate(j) ==
    /\ current = Some(<<"task", j>>)
    /\ tasks[j].pc = "final_update"
    /\ store' = update_execution_job(store, tasks[j].session_id, j, Ref(j, "r"))
    /\ tasks' = [tasks EXCEPT ![j] = EndedTask(@)]
    /\ heap' = Collect(heap, store', calls, tasks')
    /\ current' = None
    /\ UNCHANGED <<now, calls, issued, sessions, execs, files,
                   validator_vars, retry_vars, sse_vars>>

\* get_execution_result: the current record, or JOB_NOT_FOUND.
get_execution_result(st, hp, session_id, job_id) ==
    LET job == get_execution_job(st, hp, session_id, job_id)
    IN  IF job = None THEN HTTPException("JOB_NOT_FOUND", <<>>) ELSE job

\* The status poll: it reads the store and changes nothing.
GetStatus(s, j) ==
    /\ current = None
    /\ get_execution_result(store, heap, s, j) # None
    /\ UNCHANGED vars

\* stream_output_csv: the exception of get_execution_result, OUTPUT_NOT_READY,
\* or the bytes of the artifact.
stream_output_csv(st, hp, fs, session_id, job_id) ==
    LET job == get_execution_result(st, hp, session_id, job_id)
    IN  IF "error_code" \in DOMAIN job[1] THEN job
        ELSE IF job[1].status # "success" \/ job[1].output_csv_path = None
        THEN HTTPException("OUTPUT_NOT_READY", <<>>)
        ELSE Some([bytes |-> fs[job[1].output_csv_path[1]]])

\* The download: it reads the store and the artifact and changes nothing.
StreamArtifact(s, j) ==
    /\ current = None
    /\ stream_output_csv(store, heap, files, s, j) # None
    /\ UNCHANGED vars

\* _session_cleanup_loop: one TTL sweep.
Sweep ==
    /\ current = None
    /\ store' = cleanup_expired_sessions(store, now, TtlSeconds)
    /\ heap' = Collect(heap, store', calls, tasks)
    /\ UNCHANGED <<now, calls, tasks, current, issued, sessions, execs, files,
                   validator_vars, retry_vars, sse_vars>>

Next ==
    \/ Tick
    \/ \E s \in SessionIds : CreateSession(s)
    \/ \E c \in CallIds, s \in SessionIds, code \in Sources : SubmitLookup(c, s, code)
    \/ \E c \in CallIds : SubmitValidate(c)
    \/ \E c \in CallIds : SubmitAdd(c)
    \/ \E c \in CallIds : SubmitSchedule(c)
    \/ \E j \in JobIds : TaskStart(j)
    \/ \E j \in JobIds : TaskRunning(j)
    \/ \E j \in JobIds : TaskCallRunner(j)
    \/ \E j \in JobIds : RunnerStart(j)
    \/ \E j \in JobIds, proc \in ProcOutcomes : RunnerReturn(j, proc)
    \/ \E j \in JobIds : TaskResume(j)
    \/ \E j \in JobIds : TaskFinalUpdate(j)
    \/ \E s \in SessionIds, j \in JobIds : GetStatus(s, j)
    \/ \E s \in SessionIds, j \in JobIds : StreamArtifact(s, j)
    \/ Sweep

Spec == Init /\ [][Next]_vars

\* A step of a coroutine on the loop, of the executor thread or of the
\* sandboxed process.
Progress ==
    \/ \E c \in CallIds : SubmitValidate(c) \/ SubmitAdd(c) \/ SubmitSchedule(c)
    \/ \E j \in JobIds :
        \/ TaskStart(j) \/ TaskRunning(j) \/ TaskCallRunner(j)
        \/ RunnerStart(j)
        \/ \E proc \in ProcOutcomes : RunnerReturn(j, proc)
        \/ TaskResume(j) \/ TaskFinalUpdate(j)

\* The event loop runs the coroutines that are ready, and the executor
\* thread and the sandboxed process (which the timeout kills) go on: work
\* that is pending does not wait forever.  The calls and tasks are finitely
\* many and each takes finitely many steps, so this lets every one of them
\* end.
FairSpec == Spec /\ WF_vars(Progress)

\* ------------------------------------------- sandbox/validator.py alone ----
\* validate_code is a function of the source only.  The sources are all
\* the sequences of at most MaxLines of these lines.
Lines ==
    {"import subprocess", "import os", "import os.path", "import re, socket",
     "from http.client import x", "from . import x",
     "open(p)", "eval(s)", "exec(s)", "compile(s, f, m)", "__import__(m)",
     "f(open(p))", "x.__class__", "df.mro()", "df._data", "os.system(\"ls\")",
     "df.to_csv(out)", "for x in:", "x+x+...+x"}

MaxLines == 3

SourcesUpTo(n) == UNION {[1..k -> Lines] : k \in 0..n}

ValidatorInit ==
    /\ source \in SourcesUpTo(MaxLines)
    /\ outcome = None
    /\ ServiceInit
    /\ RetryIdle
    /\ SseIdle

\* One call of validate_code; what it returns is kept.
Validate ==
    /\ outcome = None
    /\ outcome' = Some(validate_code(source))
    /\ UNCHANGED <<source, service_vars, retry_vars, sse_vars>>

ValidatorNext == Validate

ValidatorSpec == ValidatorInit /\ [][ValidatorNext]_vars

\* ------------------------------------------------- utils/ai_retry.py ----
\* One call of anthropic_stream_with_retry or anthropic_accumulate_with_retry.
\* make_stream() opens a stream of the Anthropic API; a stream sends text
\* deltas and then ends, or raises.  Delta p of the stream of attempt a is
\* <<a, p>>.
MaxRetries == 2
MaxChunks == 2

APIStatusError(status_code) == [type |-> "APIStatusError", status_code |-> status_code]

APIConnectionError == [type |-> "APIConnectionError", status_code |-> 0]

\* How a stream stands that has not raised: still open, or ended.
StreamOpen == [type |-> "open", status_code |-> 0]

StreamDone == [type |-> "done", status_code |-> 0]

\* What a stream can raise: rate limit, overloaded, a server error, and an
\* error that is not an APIStatusError.
StreamErrors ==
    {APIStatusError(429), APIStatusError(529), APIStatusError(500), APIConnectionError}

_RETRYABLE_STATUS == {429, 529}

\* Mutant: the number of the attempt is not looked at.
_should_retry_status_only(exc, attempt, max_retries) ==
    exc.status_code \in _RETRYABLE_STATUS

_should_retry(exc, attempt, max_retries) ==
    exc.status_code \in _RETRYABLE_STATUS /\ attempt < max_retries

RetryInit ==
    /\ \E fn \in {"stream", "accumulate"}, max_retries \in 0..MaxRetries :
        retry = [fn |-> fn, max_retries |-> max_retries, pc |-> "for",
                 attempt |-> 0, chunks_yielded |-> FALSE, accumulated |-> <<>>,
                 result |-> None, error |-> None]
    /\ received = <<>>
    /\ streams = <<>>
    /\ ServiceInit
    /\ ValidatorIdle
    /\ SseIdle

\* for attempt in range(max_retries + 1), lines 49-52 and 86-89: the next
\* attempt opens a stream; after the last value of the range the loop is
\* left, and the accumulating helper returns "" (line 103).
Attempt ==
    /\ retry.pc = "for"
    /\ IF retry.attempt \in 0..retry.max_retries
       THEN /\ retry' = [retry EXCEPT !.pc = "stream", !.chunks_yielded = FALSE,
                                      !.accumulated = <<>>]
            /\ streams' = Append(streams, [sent |-> 0, end |-> StreamOpen])
       ELSE /\ retry' = [retry EXCEPT !.pc = "returned",
                            !.result = IF retry.fn = "accumulate"
                                       THEN Some(<<>>) ELSE None]
            /\ streams' = streams
    /\ UNCHANGED <<received, service_vars, validator_vars, sse_vars>>

\* async for text_delta in stream.text_stream, lines 53-55 and 90-91: the
\* streaming helper hands the delta to its consumer, the accumulating one
\* keeps it.
TextDelta ==
    /\ retry.pc = "stream"
    /\ streams[Len(streams)].sent < MaxChunks
    /\ LET text_delta == <<Len(streams), streams[Len(streams)].sent + 1>>
       IN  /\ streams' = [streams EXCEPT ![Len(streams)].sent = @ + 1]
           /\ IF retry.fn = "stream"
              THEN /\ retry' = [retry EXCEPT !.chunks_yielded = TRUE]
                   /\ received' = Append(received, text_delta)
              ELSE /\ retry' = [retry EXCEPT !.accumulated = Append(@, text_delta)]
                   /\ received' = received
    /\ UNCHANGED <<service_vars, validator_vars, sse_vars>>

\* The stream ends: return, line 56, or return "".join(accumulated), line 92.
StreamEnds ==
    /\ retry.pc = "stream"
    /\ streams' = [streams EXCEPT ![Len(streams)].end = StreamDone]
    /\ retry' = [retry EXCEPT !.pc = "returned",
                    !.result = IF retry.fn = "accumulate"
                               THEN Some(retry.accumulated) ELSE None]
    /\ UNCHANGED <<received, service_vars, validator_vars, sse_vars>>

\* Mutant: the streaming helper retries after it has yielded chunks too.
Retries_midstream(exc) ==
    /\ exc.type = "APIStatusError"
    /\ _should_retry(exc, retry.attempt, retry.max_retries)

\* The condition of lines 57-58 and 93-94 under which the helper sleeps and
\* goes on; an exception that is not an APIStatusError is not caught.
Retries(exc) ==
    /\ exc.type = "APIStatusError"
    /\ _should_retry(exc, retry.attempt, retry.max_retries)
    /\ retry.fn = "stream" => ~retry.chunks_yielded

\* The stream raises, on opening or after some deltas: lines 57-66 and
\* 93-102.
StreamRaises(exc) ==
    /\ retry.pc = "stream"
    /\ streams' = [streams EXCEPT ![Len(streams)].end = exc]
    /\ IF Retries(exc)
       THEN retry' = [retry EXCEPT !.pc = "sleep"]
       ELSE retry' = [retry EXCEPT !.pc = "raised", !.error = Some(exc)]
    /\ UNCHANGED <<received, service_vars, validator_vars, sse_vars>>

\* asyncio.sleep(wait) is over, lines 64 and 100: the loop goes on.
Wake ==
    /\ retry.pc = "sleep"
    /\ retry' = [retry EXCEPT !.pc = "for", !.attempt = @ + 1]
    /\ UNCHANGED <<received, streams, service_vars, validator_vars, sse_vars>>

RetryNext ==
    \/ Attempt
    \/ TextDelta
    \/ StreamEnds
    \/ \E exc \in StreamErrors : StreamRaises(exc)
    \/ Wake

RetrySpec == RetryInit /\ [][RetryNext]_vars

\* A stream of the API ends or raises (the client has timeouts) and the
\* sleep, of a finite delay, ends: the helper is not left waiting forever.
RetryFairSpec == RetrySpec /\ WF_vars(RetryNext)

\* ------------------------------------------------ utils/streaming.py ----
\* One run of sse_event_generator over a source iterator.  The generator
\* runs when its consumer asks for the next event and stops at its next
\* yield.  The source hands out texts and then ends, or raises: an
\* Exception, or an exception that is only a BaseException, as
\* asyncio.CancelledError is.
MaxItems == 2

Texts == {"a", "b", "c"}

HTTPError == [type |-> "HTTPException", is_exception |-> TRUE]

CancelledError == [type |-> "CancelledError", is_exception |-> FALSE]

RuntimeError == [type |-> "RuntimeError", is_exception |-> TRUE]

SourceExceptions == {HTTPError, CancelledError}

\* f"data: {json.dumps(...)}\n\n" for the three payloads.
ChunkEvent(text) == <<"data", <<"chunk", text>>>>

ErrorEvent(exc) == <<"data", <<"error", exc.type>>>>

DoneEvent == <<"data", <<"done", "true">>>>

SseInit ==
    /\ sse = [pc |-> "created", items |-> <<>>, source |-> None,
              pending |-> None, reached |-> None, closed |-> FALSE]
    /\ events = <<>>
    /\ ServiceInit
    /\ ValidatorIdle
    /\ RetryIdle

\* Lines 22-24: the source hands out a text and the generator yields its
\* chunk event.
SseChunk(text) ==
    /\ sse.pc \in {"created", "chunk"}
    /\ Len(sse.items) < MaxItems
    /\ sse' = [sse EXCEPT !.pc = "chunk", !.items = Append(@, text)]
    /\ events' = Append(events, ChunkEvent(text))
    /\ UNCHANGED <<service_vars, validator_vars, retry_vars>>

\* Lines 22 and 29-30: the source is exhausted, the loop ends and the
\* finally block yields the sentinel.
SseSourceEnds ==
    /\ sse.pc \in {"created", "chunk"}
    /\ sse' = [sse EXCEPT !.pc = "done", !.source = Some("StopAsyncIteration")]
    /\ events' = Append(events, DoneEvent)
    /\ UNCHANGED <<service_vars, validator_vars, retry_vars>>

\* Lines 22 and 25-30: the source raises.  An Exception is caught and the
\* error event is yielded; any other exception is not caught, and the
\* finally block yields the sentinel while the exception is in flight.
SseSourceRaises(exc) ==
    /\ sse.pc \in {"created", "chunk"}
    /\ IF exc.is_exception
       THEN /\ sse' = [sse EXCEPT !.pc = "error", !.source = Some(exc.type)]
            /\ events' = Append(events, ErrorEvent(exc))
       ELSE /\ sse' = [sse EXCEPT !.pc = "done", !.source = Some(exc.type),
                                  !.pending = Some(exc)]
            /\ events' = Append(events, DoneEvent)
    /\ UNCHANGED <<service_vars, validator_vars, retry_vars>>

\* Mutant: after the error event the generator ends.
SseAfterError_ends ==
    /\ sse.pc = "error"
    /\ sse' = [sse EXCEPT !.pc = "ended"]
    /\ events' = events
    /\ UNCHANGED <<service_vars, validator_vars, retry_vars>>

\* Lines 28-30: the consumer asks on after the error event and the finally
\* block yields the sentinel.
SseAfterError ==
    /\ sse.pc = "error"
    /\ sse' = [sse EXCEPT !.pc = "done"]
    /\ events' = Append(events, DoneEvent)
    /\ UNCHANGED <<service_vars, validator_vars, retry_vars>>

\* Line 30: the consumer asks on after the sentinel; the generator ends,
\* with the exception that was in flight, if any.
SseAfterDone ==
    /\ sse.pc = "done"
    /\ sse' = [sse EXCEPT !.pc = "ended", !.reached = sse.pending, !.pending = None]
    /\ events' = events
    /\ UNCHANGED <<service_vars, validator_vars, retry_vars>>

\* The consumer closes the generator instead of asking on (aclose):
\* GeneratorExit is thrown at the yield where the generator stands.  At
\* lines 24 and 28 the finally block then yields, which aclose answers with
\* RuntimeError; at line 30, and before the first event, the generator
\* just ends.
SseClose ==
    /\ sse.pc \in {"created", "chunk", "error", "done"}
    /\ sse' = [sse EXCEPT !.pc = "ended", !.closed = TRUE, !.pending = None,
                          !.reached = IF sse.pc \in {"chunk", "error"}
                                      THEN Some(RuntimeError) ELSE None]
    /\ events' = events
    /\ UNCHANGED <<service_vars, validator_vars, retry_vars>>

\* A step of a consumer that keeps asking for the next event.
SseProgress ==
    \/ \E text \in Texts : SseChunk(text)
    \/ SseSourceEnds
    \/ \E exc \in SourceExceptions : SseSourceRaises(exc)
    \/ SseAfterError
    \/ SseAfterDone

SseNext ==
    \/ \E text \in Texts : SseChunk(text)
    \/ SseSourceEnds
    \/ \E exc \in SourceExceptions : SseSourceRaises(exc)
    \/ SseAfterError
    \/ SseAfterDone
    \/ SseClose

SseSpec == SseInit /\ [][SseNext]_vars

\* The consumer (the streaming response) asks for the next event as long
\* as the generator has not ended, and the source answers each request.
SseFairSpec == SseSpec /\ WF_vars(SseProgress)

\* ------------------------------------------------------------ claims ----
Terminal == {"success", "error"}

\* The record a reader of the store gets for job j of session s.
JobIn(st, hp, s, j) == hp[st[s].execution_jobs[j]]

HasJob(st, s, j) == s \in DOMAIN st /\ j \in DOMAIN st[s].execution_jobs

Returned(c) == calls[c].pc = "returned"

\* Every reference in the store points to a live object.
RefsLive ==
    \A s \in DOMAIN store : \A j \in DOMAIN store[s].execution_jobs :
        store[s].execution_jobs[j] \in DOMAIN heap

\* The job that call c returned is in the store in a terminal status.
JobSettled(c) ==
    /\ calls[c].job_id # None
    /\ HasJob(store, calls[c].session_id, calls[c].job_id[1])
    /\ JobIn(store, heap, calls[c].session_id, calls[c].job_id[1]).status \in Terminal

SessionGone(c) == calls[c].session_id \notin DOMAIN store

\* C1, as stated: every submit call that returned a job id eventually has
\* that job in status success or error in the store, whatever the TTL sweep
\* does.
C1_Stated == \A c \in CallIds : Returned(c) ~> JobSettled(c)

\* C1, amended: every submit call that returned a job id eventually has that
\* job in status success or error in the store, unless the TTL sweep has
\* removed the job's session by then.
C1_SettledOrSwept ==
    \A c \in CallIds : Returned(c) ~> (JobSettled(c) \/ SessionGone(c))

\* C1 witness: a returned job that went through the runner and is settled
\* while another session has already been swept.
C1_Witness ==
    \E c \in CallIds :
        /\ Returned(c)
        /\ JobSettled(c)
        /\ sessions \ DOMAIN store # {}

Stored(st) ==
    {<<s, j>> \in SessionIds \X JobIds : HasJob(st, s, j)}

StatusIn(st, hp, s, j) == JobIn(st, hp, s, j).status

AllowedMoves ==
    { <<"queued", "running">>, <<"running", "success">>,
      <<"running", "error">>, <<"queued", "error">> }

\* C2: the statuses a reader of the store sees for a job start at queued,
\* move only queued->running, running->success, running->error or
\* queued->error, and never change once they are success or error.
C2_Monotonic ==
    [][\A s \in DOMAIN store' : \A j \in DOMAIN store'[s].execution_jobs :
         IF HasJob(store, s, j)
         THEN \/ StatusIn(store', heap', s, j) = StatusIn(store, heap, s, j)
              \/ <<StatusIn(store, heap, s, j), StatusIn(store', heap', s, j)>>
                    \in AllowedMoves
         ELSE StatusIn(store', heap', s, j) = "queued"]_vars

\* C2 witness: one job went queued, running, success and another went
\* queued, running, error.
C2_Witness ==
    \E p, q \in Stored(store) :
        /\ StatusIn(store, heap, p[1], p[2]) = "success"
        /\ StatusIn(store, heap, q[1], q[2]) = "error"

\* C3: a job record in the store has its output-artifact path set if and
\* only if its status is success.
C3_ArtifactIffSuccess ==
    \A p \in Stored(store) :
        (JobIn(store, heap, p[1], p[2]).output_csv_path # None)
            <=> (StatusIn(store, heap, p[1], p[2]) = "success")

\* C3 witness: a record that readers see as success with its path set while
\* the background task has not yet made its last update.
C3_Witness ==
    \E j \in DOMAIN tasks :
        /\ tasks[j].pc = "final_update"
        /\ HasJob(store, tasks[j].session_id, j)
        /\ StatusIn(store, heap, tasks[j].session_id, j) = "success"
        /\ JobIn(store, heap, tasks[j].session_id, j).output_csv_path # None

ErrorCode(c) ==
    IF calls[c].error = None THEN "" ELSE calls[c].error[1].error_code

\* C4: a submit whose code the validator marks invalid fails with
\* CODE_VALIDATION_FAILED carrying all the validator's violations, adds no
\* job record, schedules no task, and no task ever runs invalid code.
C4_InvalidRejected ==
    /\ [][\A c \in CallIds :
            (/\ calls[c].pc = "validate"
             /\ calls'[c] # calls[c]
             /\ ~validate_code(_strip_markdown_fences(calls[c].code)).is_valid)
            => /\ calls'[c].pc = "raised"
               /\ calls'[c].job_id = None
               /\ calls'[c].error =
                    HTTPException("CODE_VALIDATION_FAILED",
                        validate_code(_strip_markdown_fences(calls[c].code)).errors)
               /\ UNCHANGED <<store, heap, tasks, issued, execs, files>>]_vars
    /\ [][\A c \in CallIds : calls[c].pc = "raised" => calls'[c] = calls[c]]_vars
    /\ [](\A j \in DOMAIN tasks :
            tasks[j].code # <<>> => validate_code(tasks[j].code).is_valid)

\* C4 witness: a submit was refused with both violations of its code.
C4_Witness ==
    \E c \in CallIds :
        /\ calls[c].pc = "raised"
        /\ ErrorCode(c) = "CODE_VALIDATION_FAILED"
        /\ calls[c].error[1].errors =
              << <<"Blocked import", <<"subprocess">> >>,
                 <<"Blocked call", <<"open">> >> >>

\* C5: a submit for a session id that is not in the store fails with
\* SESSION_NOT_FOUND whatever the code is, leaves the store unchanged and
\* schedules no task.
C5_UnknownSession ==
    /\ [][\A c \in CallIds :
            (/\ calls[c].pc = "new"
             /\ calls'[c].pc # "new"
             /\ calls'[c].session_id \notin DOMAIN store)
            => /\ calls'[c].pc = "raised"
               /\ calls'[c].job_id = None
               /\ calls'[c].error = HTTPException("SESSION_NOT_FOUND", <<>>)
               /\ UNCHANGED <<store, heap, tasks, issued>>]_vars
    /\ [](\A c \in CallIds :
            ErrorCode(c) = "SESSION_NOT_FOUND"
                => calls[c].pc = "raised" /\ calls[c].job_id = None)

\* C5 witness: a submit for a session that the sweep had removed was
\* refused.
C5_Witness ==
    \E c \in CallIds :
        /\ ErrorCode(c) = "SESSION_NOT_FOUND"
        /\ calls[c].session_id \in sessions
        /\ calls[c].session_id \notin DOMAIN store

IsNotFound(answer) == "error_code" \in DOMAIN answer[1]

\* C6: when submit returns a job id the record is in the store under the
\* submitted session with status queued, and as long as that session is in
\* the store a status poll for the job does not answer JOB_NOT_FOUND.
C6_RecordStored ==
    /\ [][\A c \in CallIds :
            (calls[c].pc = "schedule" /\ calls'[c].pc = "returned")
            => /\ HasJob(store', calls[c].session_id, calls[c].job_id[1])
               /\ StatusIn(store', heap', calls[c].session_id, calls[c].job_id[1])
                    = "queued"]_vars
    /\ [](\A c \in CallIds :
            (Returned(c) /\ calls[c].session_id \in DOMAIN store)
            => ~IsNotFound(get_execution_result(store, heap, calls[c].session_id,
                                                calls[c].job_id[1])))

\* C6 witness: a returned job is found in its session after the sweep has
\* removed another session.
C6_Witness ==
    \E c \in CallIds :
        /\ Returned(c)
        /\ HasJob(store, calls[c].session_id, calls[c].job_id[1])
        /\ ~IsNotFound(get_execution_result(store, heap, calls[c].session_id,
                                            calls[c].job_id[1]))
        /\ sessions \ DOMAIN store # {}

\* The error message the orchestrator gives for what the process of job j
\* did.
OwnErrorMessage(proc) ==
    IF proc.kind = "raise" THEN Some("Internal error: OSError")
    ELSE IF proc.kind = "timeout" THEN Some("Timeout: execution exceeded limit")
    ELSE IF proc.returncode # 0
    THEN (IF proc.stderr # "" THEN Some(proc.stderr)
          ELSE Some("Execution failed with no error output."))
    ELSE Some("No output file was generated.")

\* The job object of task j holds what the runner invocation of task j
\* produced: the path of its own directory, the table its own process
\* wrote, the diagnostic of its own process.
OwnOutcome(j) ==
    LET job == heap[Ref(j, "r")]
        proc == tasks[j].proc[1]
    IN  /\ job.job_id = j
        /\ job.status \in Terminal
        /\ job.status = "success" =>
            /\ job.output_csv_path = tasks[j].exec_id
            /\ proc.kind = "exit" /\ proc.returncode = 0 /\ proc.wrote # None
            /\ job.error_message = None
            /\ IF proc.wrote = Some(Garbage)
               THEN job.preview_columns = <<>> /\ job.preview_rows = <<>>
               ELSE /\ job.preview_columns = proc.wrote[1].columns
                    /\ job.preview_rows = Take(proc.wrote[1].rows, PreviewRowCount)
        /\ job.status = "error" =>
            /\ job.output_csv_path = None
            /\ job.preview_columns = <<>> /\ job.preview_rows = <<>>
            /\ job.error_message = OwnErrorMessage(proc)

\* C7, as stated, for the job ids and the data of the jobs: concurrent
\* submissions get distinct job ids, the data of each job come from its own
\* runner invocation only, and a finished job's record is not changed by
\* the other job.
C7_Safety ==
    /\ [](\A c, d \in CallIds :
            (c # d /\ calls[c].job_id # None /\ calls[d].job_id # None)
                => calls[c].job_id # calls[d].job_id)
    /\ [](\A j \in DOMAIN tasks : tasks[j].pc = "final_update" => OwnOutcome(j))
    /\ [][\A p \in Stored(store) \cap Stored(store') :
            (p[2] \in DOMAIN tasks /\ tasks[p[2]].pc = "done")
                => JobIn(store', heap', p[1], p[2]) = JobIn(store, heap, p[1], p[2])]_vars

\* C8: a submit that returns makes exactly one job record and at most one
\* runner invocation, no job id is returned twice, and a job id is in the
\* job map of at most one session.
C8_OneJobPerSubmit ==
    /\ [](\A c, d \in CallIds :
            (c # d /\ Returned(c) /\ Returned(d)) => calls[c].job_id # calls[d].job_id)
    /\ [](\A j \in JobIds : Cardinality({s \in DOMAIN store : HasJob(store, s, j)}) <= 1)
    /\ [](\A p \in Stored(store) :
            Cardinality({c \in CallIds : calls[c].job_id = Some(p[2])
                                          /\ calls[c].session_id = p[1]}) = 1)
    /\ [](\A j \in DOMAIN tasks :
            /\ tasks[j].invocations <= 1
            /\ Cardinality({c \in CallIds : Returned(c) /\ calls[c].job_id = Some(j)}) = 1)
    /\ [][\A c \in CallIds :
            (calls[c].pc = "add" /\ calls'[c].pc = "schedule")
            => /\ <<calls[c].session_id, calls'[c].job_id[1]>> \notin Stored(store)
               /\ Stored(store') = Stored(store)
                    \cup {<<calls[c].session_id, calls'[c].job_id[1]>>}]_vars
    /\ [][\A c \in CallIds :
            (calls[c].pc = "schedule" /\ calls'[c].pc = "returned")
            => /\ Stored(store') = Stored(store)
               /\ DOMAIN tasks' = DOMAIN tasks \cup {calls[c].job_id[1]}
               /\ calls[c].job_id[1] \notin DOMAIN tasks]_vars

\* C8 witness: two submits returned for two sessions, each with its one
\* record and its one runner invocation.
C8_Witness ==
    \E c, d \in CallIds :
        /\ Returned(c) /\ Returned(d)
        /\ calls[c].session_id # calls[d].session_id
        /\ HasJob(store, calls[c].session_id, calls[c].job_id[1])
        /\ HasJob(store, calls[d].session_id, calls[d].job_id[1])
        /\ tasks[calls[c].job_id[1]].invocations = 1
        /\ tasks[calls[d].job_id[1]].invocations = 1

\* C9: an exception of the runner call or of the preview read is caught in
\* the background task: the job becomes error (runner) or stays success with
\* an empty preview (read), the submit calls are not touched, and a job
\* whose session is in the store is not queued or running once its task has
\* ended.
C9_ExceptionsCaught ==
    /\ [](\A j \in DOMAIN tasks :
            (tasks[j].pc = "final_update" /\ tasks[j].result[1].raised)
                => /\ heap[Ref(j, "r")].status = "error"
                   /\ heap[Ref(j, "r")].error_message # None)
    /\ [][\A j \in DOMAIN tasks :
            (/\ tasks[j].pc = "executor_done"
             /\ tasks'[j].pc = "final_update"
             /\ tasks[j].result[1].success
             /\ read_csv(files, tasks[j].exec_id[1], PreviewRowCount) = None)
                => /\ heap'[Ref(j, "r")].status = "success"
                   /\ heap'[Ref(j, "r")].preview_rows = <<>>
                   /\ heap'[Ref(j, "r")].preview_columns = <<>>]_vars
    /\ [](\A j \in DOMAIN tasks :
            (tasks[j].pc = "done" /\ HasJob(store, tasks[j].session_id, j))
                => StatusIn(store, heap, tasks[j].session_id, j) \in Terminal)
    /\ [][\A j \in DOMAIN tasks : tasks'[j] # tasks[j] => calls' = calls]_vars

\* C9 witness: the runner call raised, the task has ended and the job is in
\* the store as error with the internal-error message.
C9_Witness ==
    \E j \in DOMAIN tasks :
        /\ tasks[j].pc = "done"
        /\ HasJob(store, tasks[j].session_id, j)
        /\ JobIn(store, heap, tasks[j].session_id, j).error_message
              = Some("Internal error: OSError")

\* C10, as stated: when create_task raises after the queued record was
\* stored, the job is error, not queued.
C10_Stated ==
    \A c \in CallIds :
        (/\ calls[c].pc = "raised"
         /\ calls[c].job_id # None
         /\ HasJob(store, calls[c].session_id, calls[c].job_id[1]))
            => StatusIn(store, heap, calls[c].session_id, calls[c].job_id[1]) = "error"

\* The task of job j is between the in-place change of its job object and
\* its last update of the store.
Filled(j) == j \in DOMAIN tasks /\ tasks[j].pc = "final_update"

\* C11: when the sandboxed process runs into the timeout the runner result
\* has timed_out set, success unset and no artifact path, even when the
\* output file is there, and the job is error with no artifact path and the
\* fixed timeout message, not the runner's stderr.
C11_Timeout ==
    \A j \in DOMAIN tasks :
        (tasks[j].proc # None /\ tasks[j].proc[1].kind = "timeout")
        => /\ tasks[j].result[1].timed_out
           /\ ~tasks[j].result[1].success
           /\ tasks[j].result[1].output_csv_path = None
           /\ Filled(j) =>
                /\ heap[Ref(j, "r")].status = "error"
                /\ heap[Ref(j, "r")].output_csv_path = None
                /\ heap[Ref(j, "r")].error_message
                      = Some("Timeout: execution exceeded limit")
                /\ heap[Ref(j, "r")].error_message # Some(tasks[j].result[1].stderr)

\* C11 witness: the process was killed after it had written its output
\* file, and the job is error.
C11_Witness ==
    \E j \in DOMAIN tasks :
        /\ Filled(j)
        /\ tasks[j].proc[1].kind = "timeout"
        /\ files[tasks[j].exec_id[1]] # None
        /\ HasJob(store, tasks[j].session_id, j)
        /\ StatusIn(store, heap, tasks[j].session_id, j) = "error"

NonEmpty(message) == message # None /\ message[1] # ""

\* C12: every job record in status error, in the store or in the hands of
\* its task, has a non-empty error message.
C12_ErrorHasMessage ==
    /\ \A p \in Stored(store) :
            StatusIn(store, heap, p[1], p[2]) = "error"
                => NonEmpty(JobIn(store, heap, p[1], p[2]).error_message)
    /\ \A r \in DOMAIN heap : heap[r].status = "error" => NonEmpty(heap[r].error_message)

\* C12 witness: two stored jobs in error, one for a non-zero exit with empty
\* stderr and one for a zero exit with no artifact.
C12_Witness ==
    \E p, q \in Stored(store) :
        /\ JobIn(store, heap, p[1], p[2]).error_message
              = Some("Execution failed with no error output.")
        /\ JobIn(store, heap, q[1], q[2]).error_message
              = Some("No output file was generated.")

\* The job objects in status success, stored or in the hands of a task.
Successes == {r \in DOMAIN heap : heap[r].status = "success"}

\* C13, as stated: every job in status success has its artifact file and
\* non-empty preview columns and preview rows, at most PreviewRowCount rows.
C13_Stated ==
    \A r \in Successes :
        /\ heap[r].output_csv_path # None
        /\ files[heap[r].output_csv_path[1]] # None
        /\ heap[r].preview_columns # <<>>
        /\ heap[r].preview_rows # <<>>
        /\ Len(heap[r].preview_rows) <= PreviewRowCount

\* C13, amended: every job in status success has its artifact file and at
\* most PreviewRowCount preview rows; when the task can read the artifact
\* the preview is its column names, not empty, and its first rows, which
\* are none for an artifact without data rows; when it cannot read it the
\* preview rows and columns are both empty.
C13_SuccessPreview ==
    /\ [](\A r \in Successes :
            /\ heap[r].output_csv_path # None
            /\ files[heap[r].output_csv_path[1]] # None
            /\ Len(heap[r].preview_rows) <= PreviewRowCount)
    /\ [][\A j \in DOMAIN tasks :
            (/\ tasks[j].pc = "executor_done"
             /\ tasks'[j].pc = "final_update"
             /\ heap'[Ref(j, "r")].status = "success")
            => LET job == heap'[Ref(j, "r")]
                   written == files[job.output_csv_path[1]][1]
               IN  IF written = Garbage
                   THEN job.preview_columns = <<>> /\ job.preview_rows = <<>>
                   ELSE /\ job.preview_columns = written.columns
                        /\ job.preview_columns # <<>>
                        /\ job.preview_rows
                              = SubSeq(written.rows, 1, Len(job.preview_rows))
                        /\ \/ Len(job.preview_rows) = PreviewRowCount
                           \/ Len(job.preview_rows) = Len(written.rows)]_vars

\* C13 witness: a stored job in status success whose preview is cut to
\* PreviewRowCount rows of an artifact that has more.
C13_Witness ==
    \E p \in Stored(store) :
        /\ StatusIn(store, heap, p[1], p[2]) = "success"
        /\ Len(JobIn(store, heap, p[1], p[2]).preview_rows) = PreviewRowCount
        /\ Len(files[JobIn(store, heap, p[1], p[2]).output_csv_path[1]][1].rows)
              > PreviewRowCount

\* C14: when the runner succeeds and the read of the artifact for the
\* preview fails, the job is success with its artifact path set and empty
\* preview rows and columns, and that is the record the last update leaves
\* in the store.
C14_ReadFailureKeepsSuccess ==
    /\ [][\A j \in DOMAIN tasks :
            (/\ tasks[j].pc = "executor_done"
             /\ tasks'[j].pc = "final_update"
             /\ tasks[j].result[1].success
             /\ files[tasks[j].exec_id[1]] = Some(Garbage))
            => /\ heap'[Ref(j, "r")].status = "success"
               /\ heap'[Ref(j, "r")].output_csv_path = tasks[j].exec_id
               /\ heap'[Ref(j, "r")].error_message = None
               /\ heap'[Ref(j, "r")].preview_rows = <<>>
               /\ heap'[Ref(j, "r")].preview_columns = <<>>]_vars
    /\ [][\A j \in DOMAIN tasks :
            (/\ Filled(j)
             /\ tasks'[j].pc = "done"
             /\ HasJob(store', tasks[j].session_id, j))
            => JobIn(store', heap', tasks[j].session_id, j) = heap[Ref(j, "r")]]_vars

\* C14 witness: the task has ended and its job is in the store as success
\* with the path of an artifact that cannot be read.
C14_Witness ==
    \E j \in DOMAIN tasks :
        /\ tasks[j].pc = "done"
        /\ HasJob(store, tasks[j].session_id, j)
        /\ StatusIn(store, heap, tasks[j].session_id, j) = "success"
        /\ files[JobIn(store, heap, tasks[j].session_id, j).output_csv_path[1]]
              = Some(Garbage)

\* C15: a status poll can run whenever the event loop is free, whatever
\* the status of the job; it answers with the current record of a job that
\* is in the store, queued and running included, and with JOB_NOT_FOUND for
\* an unknown session or job id; it changes nothing.
C15_StatusPoll ==
    /\ [](\A s \in SessionIds, j \in JobIds :
            /\ current = None => ENABLED GetStatus(s, j)
            /\ IF HasJob(store, s, j)
               THEN /\ get_execution_result(store, heap, s, j)
                          = Some(JobIn(store, heap, s, j))
                    /\ get_execution_result(store, heap, s, j)[1].status
                          = StatusIn(store, heap, s, j)
               ELSE get_execution_result(store, heap, s, j)
                          = HTTPException("JOB_NOT_FOUND", <<>>))
    /\ [][\A s \in SessionIds, j \in JobIds : GetStatus(s, j) => UNCHANGED vars]_vars

\* C15 witness: the loop is free, one job is running and is answered as
\* running, another is queued and is answered as queued, and a swept
\* session is answered with JOB_NOT_FOUND.
C15_Witness ==
    /\ current = None
    /\ \E p, q \in Stored(store) :
        /\ get_execution_result(store, heap, p[1], p[2])[1].status = "running"
        /\ get_execution_result(store, heap, q[1], q[2])[1].status = "queued"
    /\ \E s \in sessions \ DOMAIN store, j \in JobIds :
        IsNotFound(get_execution_result(store, heap, s, j))

\* C16, as stated: the download gives the bytes of the artifact when the
\* job is success and fails with OUTPUT_NOT_READY in every other case, a
\* job that is not present included.
C16_Stated ==
    \A s \in SessionIds, j \in JobIds :
        IF HasJob(store, s, j) /\ StatusIn(store, heap, s, j) = "success"
        THEN stream_output_csv(store, heap, files, s, j)
                = Some([bytes |-> files[JobIn(store, heap, s, j).output_csv_path[1]]])
        ELSE stream_output_csv(store, heap, files, s, j)
                = HTTPException("OUTPUT_NOT_READY", <<>>)

\* The age of a session of the store.
Age(s) == now - store[s].created_at

\* C17: after a sweep no session that was older than the TTL is in the
\* store, get_session and get_execution_job find nothing for it, and the
\* sweep returns the number of sessions it removed.
C17_SweepRemovesExpired ==
    [][Sweep =>
        /\ \A s \in DOMAIN store :
              Age(s) > TtlSeconds
              => /\ s \notin DOMAIN store'
                 /\ get_session(store', s) = None
                 /\ \A j \in JobIds : get_execution_job(store', heap', s, j) = None
        /\ DOMAIN store' \subseteq DOMAIN store
        /\ removed(store, now, TtlSeconds)
              = Cardinality(DOMAIN store \ DOMAIN store')]_vars

\* C17 witness: both sessions have been swept, one of them with a job that
\* a submit had returned, and the job is not found any more.
C17_Witness ==
    /\ Cardinality(sessions \ DOMAIN store) = 2
    /\ \E c \in CallIds :
        /\ Returned(c)
        /\ get_execution_job(store, heap, calls[c].session_id, calls[c].job_id[1]) = None

\* C18: a sweep with no session older than the TTL returns zero and leaves
\* the store as it is; a sweep right after a sweep returns zero and leaves
\* the store as it is; and no step of a submission, a task or a poll makes
\* a sweep at the same clock find something.
C18_SweepIdempotent ==
    /\ []((\A s \in DOMAIN store : Age(s) <= TtlSeconds)
            => /\ removed(store, now, TtlSeconds) = 0
               /\ cleanup_expired_sessions(store, now, TtlSeconds) = store)
    /\ [][Sweep => /\ removed(store', now', TtlSeconds) = 0
                   /\ cleanup_expired_sessions(store', now', TtlSeconds) = store']_vars
    /\ [][(removed(store, now, TtlSeconds) = 0 /\ now' = now)
            => /\ removed(store', now', TtlSeconds) = 0
               /\ cleanup_expired_sessions(store', now', TtlSeconds) = store']_vars

\* C18 witness: a sweep has removed a session, a later session with a job
\* whose runner is at work is in the store, and a sweep now finds nothing.
C18_Witness ==
    /\ sessions \ DOMAIN store # {}
    /\ removed(store, now, TtlSeconds) = 0
    /\ \E j \in DOMAIN tasks :
        /\ tasks[j].pc = "subprocess"
        /\ HasJob(store, tasks[j].session_id, j)

\* The record that readers get for a job is not the same before and after
\* the step.
RecordChanges(p) ==
    JobIn(store', heap', p[1], p[2]) # JobIn(store, heap, p[1], p[2])

\* A coroutine that reads the store can run: the event loop is free.
ReaderCanRun ==
    \E s \in SessionIds, j \in JobIds : ENABLED GetStatus(s, j) \/ ENABLED StreamArtifact(s, j)

\* C19, as stated: a job record that is in the store changes only in a step
\* that calls update_execution_job.
C19_Stated ==
    [][\A p \in Stored(store) \cap Stored(store') :
         RecordChanges(p) => (TaskRunning(p[2]) \/ TaskFinalUpdate(p[2]))]_vars

\* C19, amended: the maps of the store change only in its locked methods;
\* the background task also changes the fields of its job object in place
\* after update_execution_job has put that object in the store, so the
\* stored record changes before the last locked update, but the task keeps
\* the event loop from these changes to the end of that update, so no
\* reader of the store runs in between.
C19_NotVisible ==
    /\ [][store' # store =>
            \/ \E s \in SessionIds : CreateSession(s)
            \/ \E c \in CallIds : SubmitAdd(c)
            \/ \E j \in JobIds : TaskRunning(j) \/ TaskFinalUpdate(j)
            \/ Sweep]_vars
    /\ [][\A p \in Stored(store) \cap Stored(store') :
            RecordChanges(p) =>
                \/ TaskRunning(p[2])
                \/ TaskResume(p[2]) /\ current' = Some(<<"task", p[2]>>)]_vars
    /\ [](\A j \in DOMAIN tasks :
            Filled(j) => current = Some(<<"task", j>>) /\ ~ReaderCanRun)
    /\ [][\A j \in DOMAIN tasks :
            (Filled(j) /\ current' # current) => TaskFinalUpdate(j)]_vars

\* C19 witness: the stored record is already error with its message while
\* the task that filled it has not made its last update and holds the loop.
C19_Witness ==
    \E j \in DOMAIN tasks :
        /\ Filled(j)
        /\ current = Some(<<"task", j>>)
        /\ HasJob(store, tasks[j].session_id, j)
        /\ store[tasks[j].session_id].execution_jobs[j] = Ref(j, "r")
        /\ JobIn(store, heap, tasks[j].session_id, j).error_message # None

\* The runner call of job j is in progress.
InRunner(j) == j \in DOMAIN tasks /\ tasks[j].pc \in {"in_executor", "subprocess"}

\* C20: a task whose runner call is in progress does not hold the event
\* loop; while runner calls are in progress a poll, a sweep and a new
\* submit can start whenever the loop is free, a submit that holds the loop
\* can take its next step, and no step other than the runner's own changes
\* the task.
C20_RunnerOffLoop ==
    /\ [](\A j \in JobIds : InRunner(j) => current # Some(<<"task", j>>))
    /\ []((\E j \in JobIds : InRunner(j)) =>
            /\ current = None =>
                /\ ENABLED Sweep
                /\ \A s \in SessionIds, k \in JobIds : ENABLED GetStatus(s, k)
                /\ \A c \in CallIds : calls[c].pc = "new" =>
                      \A s \in SessionIds, code \in Sources :
                          ENABLED SubmitLookup(c, s, code)
            /\ \A c \in CallIds : current = Some(<<"call", c>>) =>
                  ENABLED (SubmitValidate(c) \/ SubmitAdd(c) \/ SubmitSchedule(c)))
    /\ [][\A j \in JobIds :
            (InRunner(j) /\ tasks'[j] # tasks[j])
                => (RunnerStart(j) \/ \E proc \in ProcOutcomes : RunnerReturn(j, proc))]_vars

\* C20 witness: two jobs of one session are both running with their runner
\* calls in progress, and the second was submitted after the runner of the
\* first had started.
C20_Witness ==
    \E j, k \in JobIds :
        /\ j # k /\ InRunner(j) /\ InRunner(k)
        /\ tasks[j].pc = "subprocess" /\ tasks[k].pc = "subprocess"
        /\ tasks[j].session_id = tasks[k].session_id
        /\ HasJob(store, tasks[j].session_id, j)
        /\ HasJob(store, tasks[k].session_id, k)
        /\ StatusIn(store, heap, tasks[j].session_id, j) = "running"
        /\ StatusIn(store, heap, tasks[k].session_id, k) = "running"
        /\ tasks[j].started < JobIn(store, heap, tasks[k].session_id, k).created_at

\* C21, as stated: no two runner invocations use the same execution
\* directory: the directory an invocation starts in was used by no
\* invocation before it, of any session, finished or still running.
C21_Stated ==
    [][\A j \in DOMAIN tasks :
        (tasks[j].pc = "in_executor" /\ tasks'[j].pc = "subprocess")
            => tasks'[j].exec_id[1] \notin execs]_vars

\* C22: when the runner returns a result, a non-zero exit code gives
\* success = false and no artifact path even if the artifact file is there;
\* exit code zero without the artifact file gives success = false and the
\* 'no output file' diagnostic; success = true exactly when the process
\* exited zero within the timeout and the artifact file is there, and
\* exactly then the artifact path is set, to the file of the invocation.
C22_RunnerResult ==
    [][\A j \in DOMAIN tasks :
        (/\ tasks[j].pc = "subprocess"
         /\ tasks'[j].pc = "executor_done"
         /\ ~tasks'[j].result[1].raised)
        => LET result == tasks'[j].result[1]
               proc == tasks'[j].proc[1]
               exists == files'[tasks[j].exec_id[1]] # None
               zero == proc.kind = "exit" /\ proc.returncode = 0
           IN  /\ (proc.kind = "exit" /\ proc.returncode # 0)
                    => /\ ~result.success
                       /\ result.output_csv_path = None
                       /\ result.exit_code = proc.returncode
                       /\ result.stderr = proc.stderr
               /\ (zero /\ ~exists)
                    => /\ ~result.success
                       /\ result.stderr = "No output file was generated."
               /\ result.success <=> (zero /\ exists)
               /\ result.success <=> result.output_csv_path # None
               /\ result.success => result.output_csv_path = tasks[j].exec_id]_vars

\* C22 witness: a process that exited non-zero has left its artifact file,
\* and the runner has returned a failure without a path.
C22_Witness ==
    \E j \in DOMAIN tasks :
        /\ tasks[j].pc = "executor_done"
        /\ tasks[j].proc = Some(Proc("exit", 1, "", Some(Table1)))
        /\ files[tasks[j].exec_id[1]] = Some(Table1)
        /\ ~tasks[j].result[1].success
        /\ tasks[j].result[1].output_csv_path = None

\* ------------------------------------------------- claims, validator ----
Range(seq) == {seq[i] : i \in 1..Len(seq)}

\* validate_code has returned.
Validated == outcome # None

\* The source is syntactically valid.
Parses(code) == \A i \in 1..Len(code) : ParsesLine(code[i])

\* Pass 1 accepts the source.
Compiles(code) == compile_restricted(code).raised = None

\* The messages that name the forbidden imports of a source: the aliases of
\* its import statements and the modules of its from-imports whose first
\* component is a blocked module.
ForbiddenImports(code) ==
    LET nodes == PreOrder(code)
    IN  {<<"Blocked import", nodes[i].name[k]>> :
            <<i, k>> \in {p \in (1..Len(nodes)) \X (1..2) :
                /\ nodes[p[1]].type = "Import"
                /\ p[2] <= Len(nodes[p[1]].name)
                /\ nodes[p[1]].name[p[2]][1] \in BLOCKED_MODULES}}
        \cup {<<"Blocked import from", nodes[i].name>> :
                i \in {h \in 1..Len(nodes) :
                    /\ nodes[h].type = "ImportFrom"
                    /\ nodes[h].name # <<>>
                    /\ nodes[h].name[1] \in BLOCKED_MODULES}}

\* The callees of the calls of a source, at any depth, that are a bare name
\* of a dynamic-execution primitive.
ForbiddenCalls(code) ==
    {n.name[1] : n \in {h \in Range(PreOrder(code)) :
        h.type = "Call" /\ h.name # <<>> /\ h.name[1] \in BLOCKED_CALLS}}

\* The forbidden attribute names a source accesses.
ForbiddenAttributes(code) ==
    {n.attr : n \in {h \in Range(PreOrder(code)) :
        h.type = "Attribute" /\ h.attr \in BLOCKED_ATTRIBUTES}}

\* C23, as stated: for a source that parses, the outcome is invalid and
\* its violations hold a message for each forbidden import of the source.
C23_Stated ==
    [](Validated /\ Parses(source)
        => \A m \in ForbiddenImports(source) :
            /\ ~outcome[1].is_valid
            /\ m \in Range(outcome[1].errors))

\* C23, amended: for a source that parses and has a forbidden import,
\* judged by the first component of the dotted name, the outcome is
\* invalid; when pass 1 accepts the source, its violations hold a message
\* naming each forbidden import.
C23_ForbiddenImport ==
    [](Validated /\ Parses(source)
        => \A m \in ForbiddenImports(source) :
            /\ ~outcome[1].is_valid
            /\ Compiles(source) => m \in Range(outcome[1].errors))

\* C23 witness: a from-import of a submodule of a blocked module and an
\* import statement with a blocked alias have both been named.
C23_Witness ==
    /\ Validated
    /\ source = <<"from http.client import x", "import re, socket">>
    /\ <<"Blocked import from", <<"http", "client">>>> \in Range(outcome[1].errors)
    /\ <<"Blocked import", <<"socket">>>> \in Range(outcome[1].errors)

\* C24, as stated: 'import os' followed by 'os.system("ls")' is judged
\* invalid with a violation citing the blocked import of os.
C24_Stated ==
    [](Validated /\ source = <<"import os", "os.system(\"ls\")">>
        => /\ ~outcome[1].is_valid
           /\ <<"Blocked import", <<"os">>>> \in Range(outcome[1].errors))

\* C25: a source that parses and calls exec, eval, compile, __import__ or
\* open by its bare name, at any depth, is judged invalid.
C25_BlockedCall ==
    [](Validated /\ Parses(source) /\ ForbiddenCalls(source) # {}
        => ~outcome[1].is_valid)

\* C25 witness: a call of open inside the argument of another call has been
\* judged invalid.
C25_Witness ==
    /\ Validated
    /\ source = <<"f(open(p))">>
    /\ ~outcome[1].is_valid

\* The violations name attribute a: by a pass-2 message, or in the text of
\* the pass-1 error.
NamesAttribute(errors, a) ==
    \/ <<"Blocked attribute access", a>> \in Range(errors)
    \/ \E e \in Range(errors) :
        e[1] = "Syntax error" /\ <<"invalid attribute name", a>> \in Range(e[2])

\* C26, as stated: for a source that accesses a forbidden attribute the
\* outcome is invalid and a violation names the attribute.
C26_Stated ==
    [](Validated /\ Parses(source)
        => \A a \in ForbiddenAttributes(source) :
            /\ ~outcome[1].is_valid
            /\ NamesAttribute(outcome[1].errors, a))

\* C26, amended: for a source that accesses a forbidden attribute, as the
\* callee of a call or not, the outcome is invalid; when pass 1 accepts the
\* source a pass-2 violation names the attribute; when pass 1 rejects the
\* source for its policy errors and the attribute name starts with an
\* underscore, the single pass-1 error names it.
C26_ForbiddenAttribute ==
    [](Validated /\ Parses(source)
        => \A a \in ForbiddenAttributes(source) :
            /\ ~outcome[1].is_valid
            /\ Compiles(source)
                => <<"Blocked attribute access", a>> \in Range(outcome[1].errors)
            /\ (compile_restricted(source).raised = Some("SyntaxError")
                /\ a \in UnderscoreNames)
                => /\ Len(outcome[1].errors) = 1
                   /\ NamesAttribute(outcome[1].errors, a))

\* C26 witness: a forbidden attribute that is the callee of a call has been
\* named by pass 2.
C26_Witness ==
    /\ Validated
    /\ source = <<"df.mro()">>
    /\ outcome[1].errors = << <<"Blocked attribute access", "mro">> >>

\* A source with none of the three forbidden constructs.
Clean(code) ==
    /\ ForbiddenImports(code) = {}
    /\ ForbiddenCalls(code) = {}
    /\ ForbiddenAttributes(code) = {}

\* C27, as stated: a syntactically valid source without a forbidden import,
\* a bare-name call of a dynamic-execution primitive or a forbidden
\* attribute access is judged valid, with no violations.
C27_Stated ==
    [](Validated /\ Parses(source) /\ Clean(source)
        => outcome[1].is_valid /\ outcome[1].errors = <<>>)

\* C27, amended: a source that pass 1 accepts (it parses, the restricted
\* compile has no policy error and does not fail) and that has none of the
\* three forbidden constructs is judged valid, with no violations.
C27_CleanSource ==
    [](Validated /\ Compiles(source) /\ Clean(source)
        => outcome[1].is_valid /\ outcome[1].errors = <<>>)

\* C27 witness: a source with a relative import and calls of attributes
\* that are not forbidden has been judged valid.
C27_Witness ==
    /\ Validated
    /\ source = <<"from . import x", "os.system(\"ls\")", "df.to_csv(out)">>
    /\ outcome[1].is_valid
    /\ outcome[1].errors = <<>>

\* The offending items of a source: the blocked aliases of its import
\* statements, its blocked from-imports, its bare-name calls of blocked
\* callees and its forbidden attribute accesses, each with its message.
Offending(code) ==
    LET nodes == PreOrder(code)
    IN  {<<p[1], p[2], <<"Blocked import", nodes[p[1]].name[p[2]]>>>> :
            p \in {q \in (1..Len(nodes)) \X (1..2) :
                /\ nodes[q[1]].type = "Import"
                /\ q[2] <= Len(nodes[q[1]].name)
                /\ nodes[q[1]].name[q[2]][1] \in BLOCKED_MODULES}}
        \cup {<<i, 1, <<"Blocked import from", nodes[i].name>>>> :
                i \in {h \in 1..Len(nodes) :
                    /\ nodes[h].type = "ImportFrom"
                    /\ nodes[h].name # <<>>
                    /\ nodes[h].name[1] \in BLOCKED_MODULES}}
        \cup {<<i, 1, <<"Blocked call", nodes[i].name>>>> :
                i \in {h \in 1..Len(nodes) :
                    /\ nodes[h].type = "Call"
                    /\ nodes[h].name # <<>>
                    /\ nodes[h].name[1] \in BLOCKED_CALLS}}
        \cup {<<i, 1, <<"Blocked attribute access", nodes[i].attr>>>> :
                i \in {h \in 1..Len(nodes) :
                    /\ nodes[h].type = "Attribute"
                    /\ nodes[h].attr \in BLOCKED_ATTRIBUTES}}

Count(seq, m) == Cardinality({i \in 1..Len(seq) : seq[i] = m})

\* C28: validate_code returns a result for every source; when pass 1 fails
\* the result is invalid with exactly one error, of pass 1; otherwise the
\* violations are one for each offending import, call and attribute access
\* of the whole source; and the result is valid exactly when it has no
\* violations.
C28_NeverRaises ==
    [](Validated
        => LET result == outcome[1]
           IN  /\ DOMAIN result = {"is_valid", "errors"}
               /\ ~Compiles(source)
                    => /\ ~result.is_valid
                       /\ Len(result.errors) = 1
                       /\ result.errors[1][1] \in {"Syntax error", "Compilation error"}
               /\ Compiles(source)
                    => /\ Len(result.errors) = Cardinality(Offending(source))
                       /\ \A o \in Offending(source) :
                            Count(result.errors, o[3])
                                = Cardinality({p \in Offending(source) : p[3] = o[3]})
               /\ result.is_valid <=> result.errors = <<>>)

\* C28 witness: a source with three offending items on three lines, which
\* pass 1 accepts, has got three violations.
C28_Witness ==
    /\ Validated
    /\ source = <<"import re, socket", "f(open(p))", "df.mro()">>
    /\ Len(outcome[1].errors) = 3
    /\ ~outcome[1].is_valid

\* --------------------------------------------- claims, retry helpers ----
\* The error with which the stream of attempt n ended can be retried.
RetryableEnd(n) ==
    streams[n].end \in {APIStatusError(s) : s \in _RETRYABLE_STATUS}

\* C29: anthropic_stream_with_retry opens a further stream after a failure
\* only when the error status was 429 or 529, fewer than max_retries
\* retries have been made and the consumer has got no chunk; the chunks the
\* consumer has got are the first chunks of one attempt, each once and in
\* order.
C29_RetryOnlyIf ==
    /\ [][(/\ retry.fn = "stream"
           /\ streams # <<>>
           /\ Len(streams') = Len(streams) + 1)
          => /\ RetryableEnd(Len(streams))
             /\ Len(streams) - 1 < retry.max_retries
             /\ received = <<>>]_vars
    /\ [](retry.fn = "stream"
            => \A i \in 1..Len(received) : received[i] = <<received[1][1], i>>)

\* C29 witness: after a failed attempt a later attempt has delivered chunks
\* and ended.
C29_Witness ==
    /\ retry.fn = "stream"
    /\ retry.pc = "returned"
    /\ Len(streams) >= 2
    /\ received # <<>>

\* C30: both helpers open at most max_retries + 1 streams and end; a helper
\* that returns does so from its last attempt, the only one that succeeded;
\* a helper that raises raises the error of its last attempt; an error that
\* cannot be retried is raised on the attempt where it occurs; and the
\* accumulating helper returns the text of the successful attempt alone.
C30_BoundedAttempts ==
    /\ [](Len(streams) <= retry.max_retries + 1)
    /\ <>(retry.pc \in {"returned", "raised"})
    /\ [](retry.pc = "returned"
            => /\ streams # <<>>
               /\ streams[Len(streams)].end = StreamDone
               /\ \A n \in 1..(Len(streams) - 1) : streams[n].end \in StreamErrors)
    /\ [](retry.pc = "raised"
            => /\ streams # <<>>
               /\ streams[Len(streams)].end \in StreamErrors
               /\ retry.error = Some(streams[Len(streams)].end))
    /\ [][\A exc \in StreamErrors :
            (/\ StreamRaises(exc)
             /\ exc.type # "APIStatusError" \/ exc.status_code \notin {429, 529})
            => /\ retry'.pc = "raised"
               /\ retry'.error = Some(exc)]_vars
    /\ [](retry.fn = "accumulate" /\ retry.pc = "returned"
            => retry.result =
                Some([i \in 1..streams[Len(streams)].sent |-> <<Len(streams), i>>]))

\* C30 witness: the accumulating helper has returned text from its last
\* allowed attempt after attempts that failed with text already received.
C30_Witness ==
    /\ retry.fn = "accumulate"
    /\ retry.pc = "returned"
    /\ retry.max_retries >= 1
    /\ Len(streams) = retry.max_retries + 1
    /\ streams[1].sent > 0
    /\ retry.result # None
    /\ retry.result[1] # <<>>

\* ------------------------------------------- claims, event generator ----
\* The chunk events of the texts the source has handed out, in order.
ChunkEvents(items) == [i \in 1..Len(items) |-> ChunkEvent(items[i])]

\* The generator has ended and its consumer asked for events to the end.
Exhausted == sse.pc = "ended" /\ ~sse.closed

\* C31, as stated, for a consumer that asks for events to the end: the
\* events are one chunk event for each source item, in order, then a single
\* error event if the source raised, then exactly one done sentinel, and no
\* exception reaches the consumer.
C31_Stated ==
    [](Exhausted
        => /\ sse.reached = None
           /\ events = ChunkEvents(sse.items)
                \o (IF sse.source = Some("StopAsyncIteration") THEN <<>>
                    ELSE <<ErrorEvent([type |-> sse.source[1]])>>)
                \o <<DoneEvent>>)

\* C31, amended: for a consumer that asks for events to the end, the events
\* end with exactly one done sentinel and the generator ends; before the
\* sentinel come one chunk event for each source item, in order, and, when
\* the source raised an Exception, a single error event, and then no
\* exception reaches the consumer; when the source raised an exception that
\* is not an Exception (a cancellation) there is no error event and that
\* exception reaches the consumer after the sentinel.
C31_EndsWithDone ==
    /\ [](Exhausted
            => /\ events # <<>>
               /\ events[Len(events)] = DoneEvent
               /\ Count(events, DoneEvent) = 1
               /\ SubSeq(events, 1, Len(sse.items)) = ChunkEvents(sse.items)
               /\ sse.source \in {Some("StopAsyncIteration"), Some(CancelledError.type)}
                    => events = ChunkEvents(sse.items) \o <<DoneEvent>>
               /\ sse.source = Some(HTTPError.type)
                    => events = ChunkEvents(sse.items)
                                  \o <<ErrorEvent(HTTPError), DoneEvent>>
               /\ sse.reached = IF sse.source = Some(CancelledError.type)
                                THEN Some(CancelledError) ELSE None)
    /\ <>(sse.pc = "ended")

\* C31 witness: the source raised an Exception after two texts and the
\* consumer got two chunk events, the error event and the sentinel.
C31_Witness ==
    /\ Exhausted
    /\ sse.source = Some(HTTPError.type)
    /\ Len(sse.items) = MaxItems
    /\ Len(events) = MaxItems + 2

\* --------------------------------------------- claims, service again ----
\* C32: the code a submit keeps after validation is the fence-stripped
\* code, which the validator accepted; that code goes unchanged to the task
\* and stays the task's code up to the runner; so the runner never gets
\* code that was not validated.
C32_ValidatedCodeRuns ==
    /\ [][\A c \in CallIds :
            (calls[c].pc = "validate" /\ calls'[c].pc = "add")
            => /\ calls'[c].code = _strip_markdown_fences(calls[c].code)
               /\ validate_code(calls'[c].code).is_valid]_vars
    /\ [][\A c \in CallIds :
            (calls[c].pc \in {"add", "schedule"} /\ calls'[c].pc = "schedule")
            => calls'[c].code = calls[c].code]_vars
    /\ [][\A c \in CallIds :
            (calls[c].pc = "schedule" /\ calls'[c].pc = "returned")
            => tasks'[calls[c].job_id[1]].code = calls[c].code]_vars
    /\ [][\A j \in DOMAIN tasks :
            tasks'[j].pc # "done" => tasks'[j].code = tasks[j].code]_vars
    /\ [](\A j \in DOMAIN tasks :
            tasks[j].pc \in {"in_executor", "subprocess"}
            => /\ validate_code(tasks[j].code).is_valid
               /\ \E src \in Sources : tasks[j].code = _strip_markdown_fences(src))

\* C32 witness: the runner runs the code of a submission that came with
\* markdown fences, without the fences.
C32_Witness ==
    \E j \in DOMAIN tasks :
        /\ tasks[j].pc = "subprocess"
        /\ tasks[j].code = <<"df.to_csv(out)">>
        /\ <<"[fence]python", "df.to_csv(out)", "[fence]">> \in Sources

\* The sessions the TTL sweep has removed: their ids were handed out and
\* are no longer in the store.
Swept == sessions \ DOMAIN store

\* C33: a session that the sweep removed never comes back.  A session id
\* enters the store only with a fresh id and an empty job map; for a session
\* that is not in the store add_execution_job and update_execution_job
\* return the store as it is, and so does update_execution_job for a job id
\* that is not in the session's map; a step of a background task whose
\* session is not in the store leaves the store as it is; a job id enters a
\* job map only in the add step of a submit.
C33_NoResurrection ==
    /\ [][\A s \in DOMAIN store' \ DOMAIN store :
            /\ s \notin sessions /\ s \in sessions'
            /\ store'[s].execution_jobs = EmptyMap]_vars
    /\ [](\A s \in SessionIds \ DOMAIN store : \A j \in JobIds :
            /\ add_execution_job(store, s, j, Ref(j, "q")) = store
            /\ update_execution_job(store, s, j, Ref(j, "r")) = store)
    /\ [](\A s \in DOMAIN store : \A j \in JobIds \ DOMAIN store[s].execution_jobs :
            update_execution_job(store, s, j, Ref(j, "r")) = store)
    /\ [][\A j \in DOMAIN tasks :
            (tasks'[j] # tasks[j] /\ tasks[j].session_id \notin DOMAIN store)
            => store' = store]_vars
    /\ [][\A s \in DOMAIN store \cap DOMAIN store' :
            \A j \in DOMAIN store'[s].execution_jobs \ DOMAIN store[s].execution_jobs :
                \E c \in CallIds : /\ calls[c].pc = "add"
                                   /\ calls[c].session_id = s
                                   /\ calls'[c].job_id = Some(j)]_vars
    /\ [](Swept \cap DOMAIN store = {})

\* C33 witness: the sweep removed the session of a task that has its
\* terminal record ready for the last update.
C33_Witness ==
    \E j \in DOMAIN tasks :
        /\ tasks[j].pc = "final_update"
        /\ tasks[j].session_id \in Swept
        /\ heap[Ref(j, "r")].status \in {"success", "error"}

\* C33, as stated: add_execution_job too leaves the store unchanged for a
\* job id that is not in the session's map.
C33_Stated ==
    /\ C33_NoResurrection
    /\ [][\A c \in CallIds :
            (/\ calls[c].pc = "add" /\ calls'[c].pc = "schedule"
             /\ calls[c].session_id \in DOMAIN store
             /\ calls'[c].job_id[1] \notin
                    DOMAIN store[calls[c].session_id].execution_jobs)
            => store' = store]_vars

\* The job record a poller reads for job j of session s.
Read(st, hp, s, j) == hp[st[s].execution_jobs[j]]

\* C34, as stated: the job id and the created timestamp read from the store
\* for a job never change while the job is in the store.
C34_Stated ==
    [][\A s \in DOMAIN store \cap DOMAIN store' :
        \A j \in DOMAIN store[s].execution_jobs \cap DOMAIN store'[s].execution_jobs :
            /\ Read(store', heap', s, j).job_id = Read(store, heap, s, j).job_id
            /\ Read(store', heap', s, j).created_at
                   = Read(store, heap, s, j).created_at]_vars

\* C35: a job id leaves the store only with its session, and a session
\* leaves the store only in a TTL sweep that finds it expired.
C35_RemovedOnlyByExpiry ==
    /\ [][\A s \in DOMAIN store \cap DOMAIN store' :
            DOMAIN store[s].execution_jobs \subseteq DOMAIN store'[s].execution_jobs]_vars
    /\ [][DOMAIN store \ DOMAIN store' # {}
            => /\ Sweep
               /\ DOMAIN store \ DOMAIN store' = Expired(store, now, TtlSeconds)]_vars

\* C35 witness: a session in the store keeps a finished job next to a
\* later one.
C35_Witness ==
    \E s \in DOMAIN store : \E j, k \in DOMAIN store[s].execution_jobs :
        /\ j # k
        /\ Read(store, heap, s, j).status \in {"success", "error"}
        /\ Read(store, heap, s, k).status \in {"queued", "running"}

\* C36: in every job record of the store the started timestamp is unset
\* exactly in status queued, the finished timestamp is set exactly in
\* status success or error, and an error message is set only in status
\* error.
C36_TimestampsAgree ==
    \A s \in DOMAIN store : \A j \in DOMAIN store[s].execution_jobs :
        LET job == Read(store, heap, s, j)
        IN  /\ job.status \in {"queued", "running", "success", "error"}
            /\ (job.started_at = None) <=> (job.status = "queued")
            /\ (job.finished_at # None) <=> (job.status \in {"success", "error"})
            /\ (job.error_message # None) => (job.status = "error")

\* C36 witness: the store holds a job that ended in error because the
\* runner call raised, readable by a poll, next to a job not yet finished.
C36_Witness ==
    /\ current = None
    /\ \E s \in DOMAIN store : \E j, k \in DOMAIN store[s].execution_jobs :
        /\ Read(store, heap, s, j).status = "error"
        /\ Read(store, heap, s, j).error_message = Some("Internal error: OSError")
        /\ Read(store, heap, s, j).finished_at # None
        /\ Read(store, heap, s, k).status \in {"queued", "running"}
        /\ Read(store, heap, s, k).finished_at = None

\* The clock values and TTLs cleanup_expired_sessions is tried with.
Clocks == 0..MaxTime

\* C37: a TTL sweep keeps every session whose age is the TTL or less, with
\* its dataset snapshot, its job map and its job records as they were, and
\* removes nothing else than the sessions older than the TTL; the same for
\* cleanup_expired_sessions with any clock value and TTL, the clock values
\* before the creation of a session included.
C37_SweepKeepsYoung ==
    /\ [][Sweep =>
            \A s \in DOMAIN store :
                Age(s) <= TtlSeconds
                => /\ s \in DOMAIN store'
                   /\ store'[s] = store[s]
                   /\ \A j \in DOMAIN store[s].execution_jobs :
                        Read(store', heap', s, j) = Read(store, heap, s, j)]_vars
    /\ [](\A clock \in Clocks : \A ttl \in Clocks :
            LET after == cleanup_expired_sessions(store, clock, ttl)
            IN  /\ \A s \in DOMAIN store :
                     IF clock - store[s].created_at > ttl
                     THEN s \notin DOMAIN after
                     ELSE s \in DOMAIN after /\ after[s] = store[s]
                /\ DOMAIN after \subseteq DOMAIN store)

\* C37 witness: a sweep has removed a session and the store holds a session
\* whose age equals the TTL, with a job in its map; a sweep is possible now.
C37_Witness ==
    /\ current = None
    /\ Swept # {}
    /\ \E s \in DOMAIN store :
        /\ Age(s) = TtlSeconds
        /\ store[s].execution_jobs # EmptyMap
    /\ \E s \in DOMAIN store : \E clock \in Clocks :
        clock < store[s].created_at

====
